---- MODULE Spec2Model ----
(***************************************************************************)
(* GhostKey / TracePad provenance engine.                                  *)
(*                                                                         *)
(* TextTracker (src/text_tracker.py) keeps input_ranges, a list of         *)
(* {start, end, source, timestamp} intervals over the text of a Tk text    *)
(* widget.  MetadataManager (src/metadata_manager.py) serialises the list  *)
(* to JSON and back.  Application (src/ghost_key_editor.py) is the host    *)
(* that edits the widget and reports insertions to the tracker.            *)
(***************************************************************************)
EXTENDS Integers, Sequences, FiniteSets, TLC

(***************************************************************************)
(* Bounds of the model.                                                    *)
(***************************************************************************)
MaxLen == 2        \* longest text the widget holds
MaxClock == 1      \* largest value time.time() reaches
MaxDoc == 4        \* longest text of the histories made of reported edits
MaxKeys == 2       \* keystrokes followed from key press to tracking call
MaxRanges == 2     \* intervals of a serialized provenance set
MaxTokens == 3     \* tokens of a metadata text drawn freely

NL == "\n"
Chars == {"a", NL}                  \* characters of the widget's text
Sources == {"manual", "pasted"}     \* the two source tags the tracker writes

Min(a, b) == IF a < b THEN a ELSE b
Max(a, b) == IF a > b THEN a ELSE b

VARIABLES
    text,           \* text_widget.get("1.0", "end-1c"): a sequence of Chars
    origin,         \* per character: how it really entered the text
    input_ranges,   \* TextTracker.input_ranges
    clock,          \* time.time()
    lock,           \* TextTracker.lock: "free" or the thread holding it
    frame,          \* per thread: the tracker call it is running, the
                    \* statement it is at, and the call's local variables
    cursor,         \* the widget's INSERT mark, as a character offset
    keys,           \* the printable keystrokes: character, offset at which
                    \* the widget inserted it, progress of its worker
                    \* thread, captured cursor_pos, offset that reached
                    \* track_manual_input
    timers,         \* root.after callbacks not yet run, oldest first
    codec,          \* MetadataManager: self.version, the provenance set
                    \* handed to it, the metadata text, the decoder's
                    \* outcome
    mgr,            \* MetadataManager: the arguments of a validate_metadata,
                    \* merge_metadata or get_stats call and what it returned
    snap,           \* the dictionary get_metadata returned to its caller:
                    \* its ranges, and which of its objects are objects of
                    \* the tracker
    file            \* FileManager: the text read from a .lakra file and
                    \* what _parse_lakra_content returned for it

trackerVars == <<text, origin, input_ranges, clock>>
stepVars == <<lock, frame>>
keyVars == <<cursor, keys, timers>>
vars == <<text, origin, input_ranges, clock, lock, frame, cursor, keys, timers, codec, mgr, snap, file>>

\* what the actions of the tracker taken as one step leave alone
beyondTracker == <<stepVars, keyVars, codec, mgr, snap, file>>
\* what the statements of a tracker call leave alone
beyondSteps == <<keyVars, codec, mgr, snap, file>>
\* what a keystroke and its worker leave alone
beyondKeys == <<stepVars, codec, mgr, snap, file>>
\* what a call of the metadata manager leaves alone
beyondManager == <<trackerVars, stepVars, keyVars, snap, file>>
\* what a tracker call and the holder of a snapshot leave alone
beyondSnapshot == <<stepVars, keyVars, codec, mgr, file>>
\* what a call of the file manager leaves alone
beyondFile == <<trackerVars, stepVars, keyVars, codec, mgr, snap>>

(***************************************************************************)
(* Positions handed to the tracker: a Tk index string "line.col", an       *)
(* integer, or a string that does not parse.                               *)
(***************************************************************************)
StrPos(l, c) == [kind |-> "str", line |-> l, col |-> c]
IntPos(n) == [kind |-> "int", line |-> 0, col |-> n]
BadPos == [kind |-> "bad", line |-> 0, col |-> 0]

RECURSIVE SplitLines(_)
\* str.split('\n')
SplitLines(t) ==
    IF \A i \in 1..Len(t) : t[i] # NL
    THEN <<t>>
    ELSE LET i == CHOOSE k \in 1..Len(t) :
                      t[k] = NL /\ \A j \in 1..(k - 1) : t[j] # NL
         IN <<SubSeq(t, 1, i - 1)>> \o SplitLines(SubSeq(t, i + 1, Len(t)))

RECURSIVE SumLineLengths(_, _)
\* the loop "for i in range(line): if i < len(lines): index += len(lines[i]) + 1"
SumLineLengths(lines, line) ==
    IF line <= 0 THEN 0
    ELSE SumLineLengths(lines, line - 1)
         + (IF line - 1 < Len(lines) THEN Len(lines[line]) + 1 ELSE 0)

\* PosToIndex that forgets the newline ending each earlier line
PosToIndexNoNewline(position, t) ==
    IF position.kind = "int" THEN position.col
    ELSE IF position.kind = "bad" THEN 0
    ELSE LET lines == SplitLines(t)
             line == position.line - 1
         IN SumLineLengths(lines, line) - Min(Max(line, 0), Len(lines))
            + Min(position.col, IF line >= 0 /\ line < Len(lines)
                                THEN Len(lines[line + 1]) ELSE 0)

\* TextTracker._pos_to_index
PosToIndex(position, t) ==
    IF position.kind = "int" THEN position.col
    ELSE IF position.kind = "bad" THEN 0
    ELSE LET line == position.line - 1
             col == position.col
             lines == SplitLines(t)
             n == Len(lines)
         IN IF line < 0 /\ -line > n
            THEN 0      \* lines[line] raises IndexError, caught: return 0
            ELSE LET lastLen == IF line < n
                                THEN (IF line >= 0 THEN Len(lines[line + 1])
                                      ELSE Len(lines[n + line + 1]))
                                ELSE 0
                 IN SumLineLengths(lines, line) + Min(col, lastLen)

\* text_widget.index(...) of the character offset i: the widget's own
\* "line.col" form of an offset inside the text t
TkIndex(i, t) ==
    LET before == SubSeq(t, 1, i)
        lines == SplitLines(before)
    IN StrPos(Len(lines), Len(lines[Len(lines)]))

(***************************************************************************)
(* The interval engine.                                                    *)
(***************************************************************************)
Range(s, e, src, ts) == [start |-> s, end |-> e, source |-> src, timestamp |-> ts]

\* HandleDeletions that drops the intervals past the end but truncates none
HandleDeletionsNoTruncate(rs, current_length) ==
    SelectSeq(rs, LAMBDA r : r.start < current_length)

\* HandleDeletions that drops an interval reaching past the end whole
HandleDeletionsDropCut(rs, current_length) ==
    SelectSeq(rs, LAMBDA r : r.end <= current_length /\ r.end > r.start)

RECURSIVE HandleDeletions(_, _)
\* TextTracker._handle_deletions, current_length = len(text)
HandleDeletions(rs, current_length) ==
    IF rs = <<>> THEN <<>>
    ELSE LET r == Head(rs)
             rest == HandleDeletions(Tail(rs), current_length)
         IN IF r.start >= current_length
            THEN rest
            ELSE LET r2 == [r EXCEPT !.end = Min(r.end, current_length)]
                 IN IF r2.end > r2.start THEN <<r2>> \o rest ELSE rest

RECURSIVE PartitionRightAtPosition(_, _, _)
\* Partition with the right remainder of a split interval starting at the
\* insertion point instead of after the inserted characters
PartitionRightAtPosition(rs, start_idx, end_idx) ==
    IF rs = <<>> THEN <<>>
    ELSE LET r == Head(rs)
             insertion_length == end_idx - start_idx
             out ==
               IF r.end <= start_idx
               THEN <<r>>
               ELSE IF r.start >= start_idx
               THEN <<Range(r.start + insertion_length, r.end + insertion_length,
                            r.source, r.timestamp)>>
               ELSE <<Range(r.start, start_idx, r.source, r.timestamp),
                      Range(start_idx, r.end + insertion_length,
                            r.source, r.timestamp)>>
         IN out \o PartitionRightAtPosition(Tail(rs), start_idx, end_idx)

\* Partition that shifts a straddling interval whole instead of splitting it
PartitionNoSplit(rs, start_idx, end_idx) ==
    [k \in 1..Len(rs) |->
        IF rs[k].end <= start_idx THEN rs[k]
        ELSE Range(rs[k].start + (end_idx - start_idx),
                   rs[k].end + (end_idx - start_idx),
                   rs[k].source, rs[k].timestamp)]

\* Partition that stretches an interval ending before the insertion point
\* up to it
PartitionFillGap(rs, start_idx, end_idx) ==
    [k \in 1..Len(PartitionNoSplit(rs, start_idx, end_idx)) |->
        IF rs[k].end <= start_idx THEN [rs[k] EXCEPT !.end = start_idx]
        ELSE PartitionNoSplit(rs, start_idx, end_idx)[k]]

RECURSIVE PartitionShiftByOne(_, _, _)
\* Partition that moves the intervals after the insertion point by one
\* offset, whatever the length inserted
PartitionShiftByOne(rs, start_idx, end_idx) ==
    IF rs = <<>> THEN <<>>
    ELSE LET r == Head(rs)
             insertion_length == end_idx - start_idx
             out ==
               IF r.end <= start_idx
               THEN <<r>>
               ELSE IF r.start >= start_idx
               THEN <<Range(r.start + 1, r.end + 1, r.source, r.timestamp)>>
               ELSE (IF r.start < start_idx
                     THEN <<Range(r.start, start_idx, r.source, r.timestamp)>>
                     ELSE <<>>)
                    \o
                    (IF r.end > start_idx
                     THEN <<Range(end_idx, r.end + insertion_length,
                                  r.source, r.timestamp)>>
                     ELSE <<>>)
         IN out \o PartitionShiftByOne(Tail(rs), start_idx, end_idx)

RECURSIVE Partition(_, _, _)
\* the first loop of TextTracker._update_ranges
Partition(rs, start_idx, end_idx) ==
    IF rs = <<>> THEN <<>>
    ELSE LET r == Head(rs)
             insertion_length == end_idx - start_idx
             out ==
               IF r.end <= start_idx
               THEN <<r>>
               ELSE IF r.start >= start_idx
               THEN <<Range(r.start + insertion_length, r.end + insertion_length,
                            r.source, r.timestamp)>>
               ELSE (IF r.start < start_idx
                     THEN <<Range(r.start, start_idx, r.source, r.timestamp)>>
                     ELSE <<>>)
                    \o
                    (IF r.end > start_idx
                     THEN <<Range(end_idx, r.end + insertion_length,
                                  r.source, r.timestamp)>>
                     ELSE <<>>)
         IN out \o Partition(Tail(rs), start_idx, end_idx)

RECURSIVE InsertSorted(_, _)
InsertSorted(sorted, r) ==
    IF sorted = <<>> THEN <<r>>
    ELSE IF Head(sorted).start <= r.start
         THEN <<Head(sorted)>> \o InsertSorted(Tail(sorted), r)
         ELSE <<r>> \o sorted

RECURSIVE SortByStart(_)
\* list.sort(key=lambda x: x['start']): stable, ascending by start
SortByStart(rs) ==
    IF rs = <<>> THEN <<>>
    ELSE InsertSorted(SortByStart(SubSeq(rs, 1, Len(rs) - 1)), rs[Len(rs)])

\* MergeLoop that never coalesces
MergeLoopNever(merged, rs) == merged \o rs

RECURSIVE MergeLoopAnySource(_, _)
\* MergeLoop that does not compare the sources
MergeLoopAnySource(merged, rs) ==
    IF rs = <<>> THEN merged
    ELSE IF merged # <<>> /\ merged[Len(merged)].end = Head(rs).start
         THEN MergeLoopAnySource([merged EXCEPT ![Len(merged)].end = Head(rs).end],
                                 Tail(rs))
         ELSE MergeLoopAnySource(Append(merged, Head(rs)), Tail(rs))

RECURSIVE MergeLoop(_, _)
MergeLoop(merged, rs) ==
    IF rs = <<>> THEN merged
    ELSE LET r == Head(rs)
             last == merged[Len(merged)]
         IN IF merged # <<>> /\ last.source = r.source /\ last.end = r.start
            THEN MergeLoop([merged EXCEPT ![Len(merged)].end = r.end], Tail(rs))
            ELSE MergeLoop(Append(merged, r), Tail(rs))

\* the second loop of TextTracker._update_ranges
MergeTouching(rs) == MergeLoop(<<>>, rs)

\* _update_ranges that makes room for the insertion and records nothing
UpdateRangesShiftOnly(rs, start_idx, end_idx, source, now, current_length) ==
    LET reconciled == HandleDeletions(rs, current_length)
        partitioned == Partition(reconciled, start_idx, end_idx)
    IN MergeTouching(SortByStart(partitioned))

\* TextTracker._update_ranges
UpdateRanges(rs, start_idx, end_idx, source, now, current_length) ==
    LET reconciled == HandleDeletions(rs, current_length)
        partitioned == Partition(reconciled, start_idx, end_idx)
        new_ranges == Append(partitioned, Range(start_idx, end_idx, source, now))
    IN MergeTouching(SortByStart(new_ranges))

\* the locked section of track_manual_input / track_paste_input, run
\* against the widget text t at time now
TrackedRanges(rs, position, content, source, t, now) ==
    LET start_idx == PosToIndex(position, t)
        end_idx == start_idx + Len(content)
    IN UpdateRanges(rs, start_idx, end_idx, source, now, Len(t))

RECURSIVE FirstSourceClosedEnd(_, _)
\* FirstSource that takes an interval's end for covered
FirstSourceClosedEnd(rs, index) ==
    IF rs = <<>> THEN "none"
    ELSE IF Head(rs).start <= index /\ index <= Head(rs).end
         THEN Head(rs).source
         ELSE FirstSourceClosedEnd(Tail(rs), index)

RECURSIVE FirstSource(_, _)
\* get_source_at_position: the loop over self.input_ranges
FirstSource(rs, index) ==
    IF rs = <<>> THEN "none"
    ELSE IF Head(rs).start <= index /\ index < Head(rs).end
         THEN Head(rs).source
         ELSE FirstSource(Tail(rs), index)

\* the list comprehension of get_ranges_in_area with the bounds included
RangesInAreaClosed(rs, start_idx, end_idx) ==
    SelectSeq(rs, LAMBDA r : r.start <= end_idx /\ r.end >= start_idx)
\* get_ranges_in_area: [r for r in self.input_ranges if ...]
RangesInArea(rs, start_idx, end_idx) ==
    SelectSeq(rs, LAMBDA r : r.start < end_idx /\ r.end > start_idx)

\* TextTracker.get_source_at_position; "none" stands for None
GetSourceAtPosition(rs, position, t) == FirstSource(rs, PosToIndex(position, t))

\* text_widget.insert(index, content)
InsertAt(t, i, content) == SubSeq(t, 1, i) \o content \o SubSeq(t, i + 1, Len(t))

\* text_widget.delete(index1, index2) of n characters from offset i
DeleteAt(t, i, n) == SubSeq(t, 1, i) \o SubSeq(t, i + n + 1, Len(t))

\* n copies of the tag src
Tags(n, src) == [k \in 1..n |-> src]

(***************************************************************************)
(* MetadataManager: the JSON text is a sequence of tokens, a JSON value is *)
(* a tagged record.  json.dumps writes a value as tokens, json.loads reads *)
(* tokens back into a value or fails.                                      *)
(***************************************************************************)
Punct(s) == [k |-> "punct", s |-> s, n |-> 0]
StrTok(s) == [k |-> "str", s |-> s, n |-> 0]
NumTok(n) == [k |-> "num", s |-> "", n |-> n]
NullTok == [k |-> "lit", s |-> "null", n |-> 0]
BoolTok(b) == [k |-> "lit", s |-> IF b THEN "true" ELSE "false", n |-> 0]
FloatTok(n) == [k |-> "float", s |-> "", n |-> n]    \* a number written n.5
WsTok == [k |-> "ws", s |-> " ", n |-> 0]
WordTok == [k |-> "word", s |-> "not", n |-> 0]    \* text that starts no JSON value

JNull == [t |-> "null", n |-> 0, s |-> "", items |-> <<>>, members |-> <<>>]
JNum(n) == [t |-> "num", n |-> n, s |-> "", items |-> <<>>, members |-> <<>>]
\* True and False are the integers 1 and 0 to isinstance and to comparison
JBool(b) == [t |-> "bool", n |-> IF b THEN 1 ELSE 0, s |-> "", items |-> <<>>, members |-> <<>>]
JFloat(n) == [t |-> "float", n |-> n, s |-> "", items |-> <<>>, members |-> <<>>]
JStr(s) == [t |-> "str", n |-> 0, s |-> s, items |-> <<>>, members |-> <<>>]
JArr(items) == [t |-> "arr", n |-> 0, s |-> "", items |-> items, members |-> <<>>]
JObj(members) == [t |-> "obj", n |-> 0, s |-> "", items |-> <<>>, members |-> members]
Member(key, val) == [key |-> key, val |-> val]

\* key in d, d[key] and d[key] = val of a dict (insertion order kept, a
\* repeated key keeps its place and takes the last value)
HasKey(obj, key) == \E i \in 1..Len(obj.members) : obj.members[i].key = key
Get(obj, key) ==
    obj.members[CHOOSE i \in 1..Len(obj.members) : obj.members[i].key = key].val
Put(members, key, val) ==
    IF \E i \in 1..Len(members) : members[i].key = key
    THEN [i \in 1..Len(members) |->
             IF members[i].key = key THEN Member(key, val) ELSE members[i]]
    ELSE Append(members, Member(key, val))

\* json.dumps(value, separators=(',', ':'))
RECURSIVE Dumps(_)
RECURSIVE DumpItems(_)
RECURSIVE DumpMembers(_)
Dumps(v) ==
    CASE v.t = "null" -> <<NullTok>>
      [] v.t = "num" -> <<NumTok(v.n)>>
      [] v.t = "bool" -> <<BoolTok(v.n = 1)>>
      [] v.t = "float" -> <<FloatTok(v.n)>>
      [] v.t = "str" -> <<StrTok(v.s)>>
      [] v.t = "arr" -> <<Punct("[")>> \o DumpItems(v.items) \o <<Punct("]")>>
      [] v.t = "obj" -> <<Punct("{")>> \o DumpMembers(v.members) \o <<Punct("}")>>
DumpItems(items) ==
    IF items = <<>> THEN <<>>
    ELSE Dumps(Head(items)) \o
         (IF Len(items) > 1 THEN <<Punct(",")>> \o DumpItems(Tail(items)) ELSE <<>>)
DumpMembers(members) ==
    IF members = <<>> THEN <<>>
    ELSE <<StrTok(Head(members).key), Punct(":")>> \o Dumps(Head(members).val) \o
         (IF Len(members) > 1 THEN <<Punct(",")>> \o DumpMembers(Tail(members)) ELSE <<>>)

\* json.loads: a parse either yields a value and the tokens left, or fails
Parsed(val, rest) == [ok |-> TRUE, val |-> val, rest |-> rest]
ParseError == [ok |-> FALSE, val |-> JNull, rest |-> <<>>]
Starts(toks, tok) == toks # <<>> /\ Head(toks) = tok
RECURSIVE ParseValue(_)
RECURSIVE ParseItems(_, _)
RECURSIVE ParseMembers(_, _)
ParseValue(toks) ==
    IF toks = <<>> THEN ParseError
    ELSE LET h == Head(toks)
             rest == Tail(toks)
         IN CASE h.k = "num" -> Parsed(JNum(h.n), rest)
              [] h.k = "str" -> Parsed(JStr(h.s), rest)
              [] h.k = "float" -> Parsed(JFloat(h.n), rest)
              [] h.k = "lit" ->
                    Parsed(IF h.s = "null" THEN JNull ELSE JBool(h.s = "true"), rest)
              [] h = Punct("[") ->
                    IF Starts(rest, Punct("]")) THEN Parsed(JArr(<<>>), Tail(rest))
                    ELSE ParseItems(rest, <<>>)
              [] h = Punct("{") ->
                    IF Starts(rest, Punct("}")) THEN Parsed(JObj(<<>>), Tail(rest))
                    ELSE ParseMembers(rest, <<>>)
              [] OTHER -> ParseError
ParseItems(toks, acc) ==
    LET p == ParseValue(toks)
    IN IF ~p.ok THEN ParseError
       ELSE IF Starts(p.rest, Punct(",")) THEN ParseItems(Tail(p.rest), Append(acc, p.val))
       ELSE IF Starts(p.rest, Punct("]")) THEN Parsed(JArr(Append(acc, p.val)), Tail(p.rest))
       ELSE ParseError
ParseMembers(toks, acc) ==
    IF ~(Len(toks) >= 2 /\ toks[1].k = "str" /\ toks[2] = Punct(":")) THEN ParseError
    ELSE LET p == ParseValue(Tail(Tail(toks)))
             members == Put(acc, toks[1].s, p.val)
         IN IF ~p.ok THEN ParseError
            ELSE IF Starts(p.rest, Punct(",")) THEN ParseMembers(Tail(p.rest), members)
            ELSE IF Starts(p.rest, Punct("}")) THEN Parsed(JObj(members), Tail(p.rest))
            ELSE ParseError
\* whitespace between tokens is skipped; text after the value is an error
Loads(metadata_str) ==
    LET p == ParseValue(SelectSeq(metadata_str, LAMBDA tok : tok.k # "ws"))
    IN IF p.ok /\ p.rest = <<>> THEN p ELSE ParseError

\* TextTracker.get_metadata: the dictionary handed to serialize_metadata
RangeValue(r) ==
    JObj(<<Member("start", JNum(r.start)), Member("end", JNum(r.end)),
           Member("source", JStr(r.source)), Member("timestamp", JNum(r.timestamp))>>)
GetMetadata(rs) ==
    JObj(<<Member("version", JStr("1.1")),
           Member("ranges", JArr([i \in 1..Len(rs) |-> RangeValue(rs[i])]))>>)

\* MetadataManager.serialize_metadata, at time created
SerializeMetadata(metadata, version, created) ==
    Dumps(JObj(<<Member("ghostkey_metadata",
                        JObj(<<Member("version", JStr(version)),
                               Member("created", JNum(created)),
                               Member("data", metadata)>>))>>))

\* sub in s for the strings of the model
Substring(sub, s) == s = sub \/ <<sub, s>> \in {<<"ranges", "oranges">>}
\* key in data: dict key, list element, substring; TypeError otherwise
Iterable(data) == data.t \in {"obj", "arr", "str"}
In(key, data) ==
    CASE data.t = "obj" -> HasKey(data, key)
      [] data.t = "arr" -> \E i \in 1..Len(data.items) :
                               data.items[i].t = "str" /\ data.items[i].s = key
      [] data.t = "str" -> Substring(key, data.s)

\* the body of deserialize_metadata's try: it returns or it raises
Return(val) == [raised |-> "", val |-> val]
Raise(exc) == [raised |-> exc, val |-> JNull]
IsBlank(metadata_str) == \A i \in 1..Len(metadata_str) : metadata_str[i].k = "ws"
TryDeserializeWholeDocument(metadata_str) ==
    IF IsBlank(metadata_str) THEN Return(JNull)
    ELSE LET p == Loads(metadata_str)
         IN IF ~p.ok THEN Raise("JSONDecodeError") ELSE Return(p.val)
\* deserialize_metadata without its "if 'ranges' in data" branch
TryDeserializeEnvelopeOnly(metadata_str) ==
    IF IsBlank(metadata_str) THEN Return(JNull)
    ELSE LET p == Loads(metadata_str)
             data == p.val
         IN IF ~p.ok THEN Raise("JSONDecodeError")
            ELSE IF ~Iterable(data) THEN Raise("TypeError")
            ELSE IF In("ghostkey_metadata", data)
                 THEN IF data.t # "obj" THEN Raise("TypeError")
                      ELSE LET envelope == Get(data, "ghostkey_metadata")
                           IN IF envelope.t # "obj" THEN Raise("TypeError")
                              ELSE IF ~HasKey(envelope, "data") THEN Raise("KeyError")
                              ELSE Return(Get(envelope, "data"))
            ELSE Return(JNull)
TryDeserialize(metadata_str) ==
    IF IsBlank(metadata_str) THEN Return(JNull)
    ELSE LET p == Loads(metadata_str)
             data == p.val
         IN IF ~p.ok THEN Raise("JSONDecodeError")
            ELSE IF ~Iterable(data) THEN Raise("TypeError")
            ELSE IF In("ghostkey_metadata", data)
                 THEN IF data.t # "obj" THEN Raise("TypeError")
                      ELSE LET envelope == Get(data, "ghostkey_metadata")
                           IN IF envelope.t # "obj" THEN Raise("TypeError")
                              ELSE IF ~HasKey(envelope, "data") THEN Raise("KeyError")
                              ELSE Return(Get(envelope, "data"))
            ELSE IF In("ranges", data) THEN Return(data)
            ELSE Return(JNull)

\* MetadataManager.deserialize_metadata: except json.JSONDecodeError and
\* except Exception both return None; anything else reaches the caller
Outcome(present, val, propagated) ==
    [present |-> present, val |-> val, propagated |-> propagated]
Absent == Outcome(FALSE, JNull, "")
DeserializeOnlyDecodeErrors(metadata_str) ==
    LET r == TryDeserialize(metadata_str)
    IN IF r.raised = "JSONDecodeError" THEN Absent
       ELSE IF r.raised # "" THEN Outcome(FALSE, JNull, r.raised)
       ELSE Outcome(r.val.t # "null", r.val, "")
DeserializeMetadata(metadata_str) ==
    LET r == TryDeserialize(metadata_str)
    IN IF r.raised = "JSONDecodeError" THEN Absent
       ELSE IF r.raised # "" THEN Absent
       ELSE Outcome(r.val.t # "null", r.val, "")

\* MetadataManager.validate_metadata
IsInstanceInt(v) == v.t \in {"num", "bool"}
ValidRange(range_info) ==
    IF range_info.t # "obj" THEN FALSE
    ELSE IF \E field \in {"start", "end", "source"} : ~HasKey(range_info, field) THEN FALSE
    ELSE LET start == Get(range_info, "start")
             end == Get(range_info, "end")
             source == Get(range_info, "source")
         IN IF ~IsInstanceInt(start) THEN FALSE
            ELSE IF ~IsInstanceInt(end) THEN FALSE
            ELSE IF source.t # "str" THEN FALSE
            ELSE IF start.n < 0 \/ end.n < 0 THEN FALSE
            ELSE IF start.n >= end.n THEN FALSE
            ELSE source.s \in {"manual", "pasted"}
ValidateMetadata(metadata) ==
    IF metadata.t # "obj" THEN FALSE
    ELSE IF ~HasKey(metadata, "ranges") THEN FALSE
    ELSE LET ranges == Get(metadata, "ranges")
         IN IF ranges.t # "arr" THEN FALSE
            ELSE \A i \in 1..Len(ranges.items) : ValidRange(ranges.items[i])

\* a metadata dictionary of the manager's callers; None and {} are falsy
Meta(version, ranges) == [present |-> TRUE, version |-> version, ranges |-> ranges]
NoMeta == [present |-> FALSE, version |-> "", ranges |-> <<>>]

\* MetadataManager.merge_metadata: the loop over the sorted ranges
RECURSIVE CoalesceLoopTouchOnly(_, _)
CoalesceLoopTouchOnly(all_ranges, merged_ranges) ==
    IF all_ranges = <<>> THEN merged_ranges
    ELSE LET range_info == Head(all_ranges)
             n == Len(merged_ranges)
         IN IF /\ n > 0
               /\ merged_ranges[n].source = range_info.source
               /\ merged_ranges[n].end = range_info.start
            THEN CoalesceLoopTouchOnly(Tail(all_ranges),
                     [merged_ranges EXCEPT ![n].end = range_info.end])
            ELSE CoalesceLoopTouchOnly(Tail(all_ranges), Append(merged_ranges, range_info))
RECURSIVE CoalesceLoop(_, _)
CoalesceLoop(all_ranges, merged_ranges) ==
    IF all_ranges = <<>> THEN merged_ranges
    ELSE LET range_info == Head(all_ranges)
             n == Len(merged_ranges)
         IN IF /\ n > 0
               /\ merged_ranges[n].source = range_info.source
               /\ merged_ranges[n].end >= range_info.start
            THEN CoalesceLoop(Tail(all_ranges),
                     [merged_ranges EXCEPT ![n].end = Max(merged_ranges[n].end,
                                                         range_info.end)])
            ELSE CoalesceLoop(Tail(all_ranges), Append(merged_ranges, range_info))

\* MetadataManager.merge_metadata
MergeMetadataSortLast(metadata1, metadata2, version) ==
    LET all_ranges == (IF metadata1.present THEN metadata1.ranges ELSE <<>>)
                      \o (IF metadata2.present THEN metadata2.ranges ELSE <<>>)
    IN Meta(version, SortByStart(CoalesceLoop(all_ranges, <<>>)))
MergeMetadata(metadata1, metadata2, version) ==
    LET all_ranges == (IF metadata1.present THEN metadata1.ranges ELSE <<>>)
                      \o (IF metadata2.present THEN metadata2.ranges ELSE <<>>)
    IN Meta(version, CoalesceLoop(SortByStart(all_ranges), <<>>))

\* merge_metadata and its arguments' dictionaries: all_ranges is a new list of
\* the dictionaries the two arguments hold, each marked here with the argument
\* and the place it comes from; a dictionary of the output is one of these or
\* a new one, and a write to an output dictionary that is an argument's shows
\* in the argument
Unshared == <<0, 0>>
Held(metadata, which) ==
    [i \in 1..Len(metadata.ranges) |->
        [start |-> metadata.ranges[i].start, end |-> metadata.ranges[i].end,
         source |-> metadata.ranges[i].source,
         timestamp |-> metadata.ranges[i].timestamp, of |-> <<which, i>>]]
\* appending range_info itself
RangeAlias(range_info) == range_info
\* range_info.copy()
RangeCopy(range_info) == [range_info EXCEPT !.of = Unshared]
RECURSIVE CoalesceWrites(_, _, _)
\* the loop over the sorted ranges, as CoalesceLoop, returning what the
\* arguments' lists hold once it is done
CoalesceWrites(all_ranges, merged_ranges, held) ==
    IF all_ranges = <<>> THEN held
    ELSE LET range_info == Head(all_ranges)
             n == Len(merged_ranges)
         IN IF /\ n > 0
               /\ merged_ranges[n].source = range_info.source
               /\ merged_ranges[n].end >= range_info.start
            THEN LET e == Max(merged_ranges[n].end, range_info.end)
                     at == merged_ranges[n].of
                 IN CoalesceWrites(Tail(all_ranges),
                        [merged_ranges EXCEPT ![n].end = e],
                        IF at = Unshared THEN held
                        ELSE [held EXCEPT ![at[1]][at[2]].end = e])
            ELSE CoalesceWrites(Tail(all_ranges),
                     Append(merged_ranges, RangeCopy(range_info)), held)
\* the ranges of metadata1 and of metadata2 after merge_metadata returned
ArgumentsAfterMerge(metadata1, metadata2) ==
    CoalesceWrites(SortByStart(Held(metadata1, 1) \o Held(metadata2, 2)), <<>>,
                   <<metadata1.ranges, metadata2.ranges>>)

\* a percentage as the exact quotient num / den
Percent(chars, total_length) == [num |-> chars * 100, den |-> total_length]
ZeroPercent == [num |-> 0, den |-> 1]
FullPercent == [num |-> 100, den |-> 1]
ZeroStats ==
    [total_chars |-> 0, typed_chars |-> 0, pasted_chars |-> 0, unknown_chars |-> 0,
     typed_percentage |-> ZeroPercent, pasted_percentage |-> ZeroPercent,
     unknown_percentage |-> ZeroPercent,
     total_ranges |-> 0, typed_ranges |-> 0, pasted_ranges |-> 0]

\* get_stats: the loop over the ranges
RECURSIVE CountRanges(_, _)
CountRanges(ranges, acc) ==
    IF ranges = <<>> THEN acc
    ELSE LET range_info == Head(ranges)
             length == range_info.end - range_info.start
             tracked == [acc EXCEPT !.tracked_chars = @ + length]
         IN CountRanges(Tail(ranges),
               IF range_info.source = "manual"
               THEN [tracked EXCEPT !.typed_chars = @ + length, !.typed_ranges = @ + 1]
               ELSE IF range_info.source = "pasted"
               THEN [tracked EXCEPT !.pasted_chars = @ + length, !.pasted_ranges = @ + 1]
               ELSE tracked)

\* get_stats that divides whatever total_length is
GetStatsNoZeroGuard(metadata, total_length) ==
    IF ~metadata.present
    THEN [ZeroStats EXCEPT !.total_chars = total_length,
                           !.unknown_chars = total_length,
                           !.unknown_percentage =
                               IF total_length > 0 THEN FullPercent ELSE ZeroPercent]
    ELSE LET c == CountRanges(metadata.ranges,
                     [tracked_chars |-> 0, typed_chars |-> 0, typed_ranges |-> 0,
                      pasted_chars |-> 0, pasted_ranges |-> 0])
             unknown_chars == Max(0, total_length - c.tracked_chars)
             counted == [ZeroStats EXCEPT !.total_chars = total_length,
                                          !.total_ranges = Len(metadata.ranges),
                                          !.typed_chars = c.typed_chars,
                                          !.typed_ranges = c.typed_ranges,
                                          !.pasted_chars = c.pasted_chars,
                                          !.pasted_ranges = c.pasted_ranges,
                                          !.unknown_chars = unknown_chars]
         IN [counted EXCEPT
                !.typed_percentage = Percent(c.typed_chars, total_length),
                !.pasted_percentage = Percent(c.pasted_chars, total_length),
                !.unknown_percentage = Percent(unknown_chars, total_length)]

\* MetadataManager.get_stats
GetStats(metadata, total_length) ==
    IF ~metadata.present
    THEN [ZeroStats EXCEPT !.total_chars = total_length,
                           !.unknown_chars = total_length,
                           !.unknown_percentage =
                               IF total_length > 0 THEN FullPercent ELSE ZeroPercent]
    ELSE LET c == CountRanges(metadata.ranges,
                     [tracked_chars |-> 0, typed_chars |-> 0, typed_ranges |-> 0,
                      pasted_chars |-> 0, pasted_ranges |-> 0])
             unknown_chars == Max(0, total_length - c.tracked_chars)
             counted == [ZeroStats EXCEPT !.total_chars = total_length,
                                          !.total_ranges = Len(metadata.ranges),
                                          !.typed_chars = c.typed_chars,
                                          !.typed_ranges = c.typed_ranges,
                                          !.pasted_chars = c.pasted_chars,
                                          !.pasted_ranges = c.pasted_ranges,
                                          !.unknown_chars = unknown_chars]
         IN IF total_length > 0
            THEN [counted EXCEPT
                     !.typed_percentage = Percent(c.typed_chars, total_length),
                     !.pasted_percentage = Percent(c.pasted_chars, total_length),
                     !.unknown_percentage = Percent(unknown_chars, total_length)]
            ELSE counted

ManagerIdle ==
    [stage |-> "idle", version |-> "1.0", a |-> NoMeta, b |-> NoMeta,
     total_length |-> 0, data |-> JNull, valid |-> FALSE,
     merged |-> NoMeta, again |-> NoMeta, stats |-> ZeroStats]

(***************************************************************************)
(* FileManager: a .lakra file is its text, then the metadata between two   *)
(* delimiter lines.  The file text is a sequence of tokens: words and      *)
(* white space of the document, the two delimiters, and JSON tokens.       *)
(***************************************************************************)
MetadataStart == [k |-> "delim", s |-> "<!-- GHOSTKEY_METADATA_START -->", n |-> 0]
MetadataEnd == [k |-> "delim", s |-> "<!-- GHOSTKEY_METADATA_END -->", n |-> 0]

\* str.find(sub, start): the first place at or after from, 0 for -1
Find(s, sub, from) ==
    IF \E i \in from..Len(s) : s[i] = sub
    THEN CHOOSE i \in from..Len(s) : s[i] = sub /\ \A j \in from..(i - 1) : s[j] # sub
    ELSE 0

RECURSIVE RStrip(_)
\* str.rstrip()
RStrip(s) ==
    IF s # <<>> /\ s[Len(s)].k = "ws" THEN RStrip(SubSeq(s, 1, Len(s) - 1)) ELSE s
RECURSIVE LStrip(_)
LStrip(s) == IF s # <<>> /\ Head(s).k = "ws" THEN LStrip(Tail(s)) ELSE s
\* str.strip()
Strip(s) == LStrip(RStrip(s))

Loaded(content, metadata) == [content |-> content, metadata |-> metadata]

\* FileManager._parse_lakra_content
ParseLakraContent(file_content) ==
    LET metadata_start_idx == Find(file_content, MetadataStart, 1)
        content == RStrip(SubSeq(file_content, 1, metadata_start_idx - 1))
        metadata_end_idx == Find(file_content, MetadataEnd, metadata_start_idx + 1)
        metadata_json == Strip(SubSeq(file_content, metadata_start_idx + 1,
                                      metadata_end_idx - 1))
        metadata == DeserializeMetadata(metadata_json)
    IN IF metadata_start_idx = 0 THEN Loaded(file_content, Absent)
       ELSE IF metadata_end_idx = 0 THEN Loaded(content, Absent)
       ELSE IF metadata.propagated # "" THEN Loaded(file_content, Absent)
       ELSE Loaded(content, metadata)

\* bool(value): None, 0, "", [] and {} are false
Truthy(v) ==
    CASE v.t = "null" -> FALSE
      [] v.t \in {"num", "bool"} -> v.n # 0
      [] v.t = "float" -> TRUE
      [] v.t = "str" -> v.s # ""
      [] v.t = "arr" -> v.items # <<>>
      [] v.t = "obj" -> v.members # <<>>

\* FileManager._create_lakra_content, serialize_metadata running at time now
CreateLakraContent(content, metadata, now) ==
    IF Truthy(metadata) /\ ValidateMetadata(metadata)
    THEN content \o <<WsTok, MetadataStart, WsTok>>
                 \o SerializeMetadata(metadata, "1.0", now) \o <<WsTok, MetadataEnd>>
    ELSE content

\* range_data.get(key, default), for the numbers and strings of an interval
GetOr(range_data, key, default) ==
    IF HasKey(range_data, key)
    THEN LET v == Get(range_data, key) IN IF v.t = "str" THEN v.s ELSE v.n
    ELSE default

RECURSIVE AppendLoaded(_, _, _)
\* load_metadata: the loop of appends; an entry that is no dictionary has
\* no get and ends the call
AppendLoaded(items, acc, now) ==
    IF items = <<>> THEN [ranges |-> acc, raised |-> FALSE]
    ELSE IF Head(items).t # "obj" THEN [ranges |-> acc, raised |-> TRUE]
    ELSE AppendLoaded(Tail(items),
                      Append(acc, Range(GetOr(Head(items), "start", 0),
                                        GetOr(Head(items), "end", 0),
                                        GetOr(Head(items), "source", "unknown"),
                                        GetOr(Head(items), "timestamp", now))),
                      now)

\* TextTracker.load_metadata(metadata) on the value deserialize_metadata
\* returned, the tracker holding rs: the interval list it leaves
LoadMetadata(rs, metadata, now) ==
    IF ~Truthy(metadata) THEN rs
    ELSE IF ~Iterable(metadata) THEN rs       \* 'ranges' not in metadata raises
    ELSE IF ~In("ranges", metadata) THEN rs
    ELSE IF metadata.t # "obj" THEN <<>>      \* metadata['ranges'] raises
    ELSE LET ranges == Get(metadata, "ranges")
             filled == AppendLoaded(ranges.items, <<>>, now)
         IN IF ranges.t # "arr" THEN <<>>     \* the for loop raises
            ELSE IF filled.raised THEN filled.ranges
            ELSE SortByStart(filled.ranges)

\* text_widget.insert("1.0", content): the characters of the tokens
ToChars(content) ==
    [i \in 1..Len(content) |->
        IF content[i].k = "ws" THEN NL
        ELSE IF content[i].k = "delim" THEN content[i].s
        ELSE "a"]
\* content = self.text_widget.get("1.0", tk.END + "-1c"): a delimiter typed
\* or pasted into the document is one element of the text
ToTokens(t) ==
    [i \in 1..Len(t) |->
        IF t[i] = NL THEN WsTok
        ELSE IF t[i] = MetadataStart.s THEN MetadataStart
        ELSE IF t[i] = MetadataEnd.s THEN MetadataEnd
        ELSE WordTok]

\* content, metadata: the arguments of save_file; file_content: the text of
\* the file; loaded: what load_file returned
FileIdle ==
    [stage |-> "idle", content |-> <<>>, metadata |-> JNull,
     file_content |-> <<>>, loaded |-> Loaded(<<>>, Absent)]

CodecIdle ==
    [stage |-> "idle", ranges |-> <<>>, version |-> "1.0", wire |-> <<>>, out |-> Absent]

(***************************************************************************)
(* State after construction: empty widget, empty tracker.                  *)
(***************************************************************************)
\* every tracker call runs on the Tk main-loop thread: the worker thread of
\* on_key_press only reads the cursor and schedules the call with root.after
Threads == {"ui"}

IdleFrame == [op |-> "idle", pc |-> "idle", position |-> IntPos(0), length |-> 0,
              start_idx |-> 0, end_idx |-> 0, new_ranges |-> <<>>,
              text_len |-> 0, meta |-> <<>>, hit |-> FALSE, source |-> "none",
              result |-> <<>>, raised |-> FALSE]

\* no dictionary exported yet.  ranges: the values of the exported list's
\* dictionaries; link[j] = i > 0: the j-th of them is the very dictionary
\* at self.input_ranges[i - 1]; sameList: the list is self.input_ranges
\* itself; op: the last call made
NoSnapshot ==
    [exported |-> FALSE, ranges |-> <<>>, link |-> <<>>, sameList |-> FALSE,
     op |-> "none"]

InitTracker ==
    /\ snap = NoSnapshot
    /\ text = <<>>
    /\ origin = <<>>
    /\ input_ranges = <<>>
    /\ clock = 0
    /\ lock = "free"
    /\ frame = [t \in Threads |-> IdleFrame]
    /\ cursor = 0
    /\ keys = <<>>
    /\ timers = <<>>

\* time passes between two calls of time.time()
Tick ==
    /\ clock < MaxClock
    /\ clock' = clock + 1
    /\ UNCHANGED <<text, origin, input_ranges, beyondTracker>>

\* TextTracker.track_manual_input(position, character); text_widget is set
TrackManualInput(position, character) ==
    /\ input_ranges' = TrackedRanges(input_ranges, position, character,
                                     "manual", text, clock)
    /\ UNCHANGED <<text, origin, clock, beyondTracker>>

\* TextTracker.track_paste_input(position, content)
TrackPasteInput(position, content) ==
    /\ input_ranges' = IF content = <<>>
                       THEN input_ranges
                       ELSE TrackedRanges(input_ranges, position, content,
                                          "pasted", text, clock)
    /\ UNCHANGED <<text, origin, clock, beyondTracker>>

\* the widget inserts a character the host does not report (Return, Tab:
\* on_key_press tracks printable characters only)
HostInsert(i, c) ==
    /\ Len(text) < MaxLen
    /\ i <= Len(text)
    /\ text' = InsertAt(text, i, <<c>>)
    /\ origin' = InsertAt(origin, i, <<"none">>)
    /\ UNCHANGED <<input_ranges, clock, beyondTracker>>

\* the widget deletes characters (BackSpace, Delete, cut): never reported
HostDelete(i, n) ==
    /\ n >= 1 /\ i + n <= Len(text)
    /\ text' = DeleteAt(text, i, n)
    /\ origin' = DeleteAt(origin, i, n)
    /\ UNCHANGED <<input_ranges, clock, beyondTracker>>

(***************************************************************************)
(* Spec: the tracker under any sequence of record_insertion calls with     *)
(* position >= 0 and length >= 1, the widget's text changing freely        *)
(* between the calls.                                                      *)
(***************************************************************************)
Contents == {<<"a">>, <<"a", NL>>}
ValidPositions ==
    {IntPos(n) : n \in 0..(MaxLen + 1)}
    \cup {StrPos(l, c) : l \in 1..2, c \in 0..MaxLen}

Init == InitTracker /\ codec = CodecIdle /\ mgr = ManagerIdle /\ file = FileIdle

Next ==
    \/ Tick
    \/ \E i \in 0..MaxLen, c \in Chars : HostInsert(i, c)
    \/ \E i \in 0..MaxLen, n \in 1..MaxLen : HostDelete(i, n)
    \/ \E p \in ValidPositions : TrackManualInput(p, <<"a">>)
    \/ \E p \in ValidPositions, c \in Contents : TrackPasteInput(p, c)

Spec == Init /\ [][Next]_vars

(***************************************************************************)
(* SpecAny: as Spec, the caller also sending requests the contract calls   *)
(* invalid: an empty character or content, a negative offset, a position   *)
(* that does not parse.                                                    *)
(***************************************************************************)
AnyPositions == ValidPositions \cup {IntPos(-1), StrPos(1, -1), BadPos}
AnyContents == Contents \cup {<<>>}

NextAny ==
    \/ Tick
    \/ \E i \in 0..MaxLen, c \in Chars : HostInsert(i, c)
    \/ \E i \in 0..MaxLen, n \in 1..MaxLen : HostDelete(i, n)
    \/ \E p \in AnyPositions, c \in {<<>>, <<"a">>} : TrackManualInput(p, c)
    \/ \E p \in AnyPositions, c \in AnyContents : TrackPasteInput(p, c)

SpecAny == Init /\ [][NextAny]_vars

(***************************************************************************)
(* SpecReported: histories made only of insertions, each reported to the   *)
(* tracker by one call made right after the widget inserted the text.      *)
(***************************************************************************)
Clipboard == {<<"a">>, <<NL>>, <<"a", NL>>, <<"a", "a">>}

\* Application.on_paste with no selection, the insertion cursor at offset i
OnPaste(i, clipboard_content) ==
    /\ i <= Len(text)
    /\ Len(text) + Len(clipboard_content) <= MaxDoc
    /\ LET insert_pos == TkIndex(i, text)
       IN /\ text' = InsertAt(text, i, clipboard_content)
          /\ origin' = InsertAt(origin, i, Tags(Len(clipboard_content), "pasted"))
          /\ input_ranges' = TrackedRanges(input_ranges, insert_pos,
                                           clipboard_content, "pasted",
                                           text', clock)
    /\ UNCHANGED <<clock, beyondTracker>>

\* a printable key: the widget inserts the character at offset i, then
\* track_manual_input runs with the index of that character
KeyReported(i, char) ==
    /\ i <= Len(text)
    /\ Len(text) < MaxDoc
    /\ text' = InsertAt(text, i, <<char>>)
    /\ origin' = InsertAt(origin, i, <<"manual">>)
    /\ input_ranges' = TrackedRanges(input_ranges, TkIndex(i, text'), <<char>>,
                                     "manual", text', clock)
    /\ UNCHANGED <<clock, beyondTracker>>

NextReported ==
    \/ Tick
    \/ \E i \in 0..MaxDoc, c \in Clipboard : OnPaste(i, c)
    \/ \E i \in 0..MaxDoc : KeyReported(i, "a")

SpecReported == Init /\ [][NextReported]_vars

(***************************************************************************)
(* SpecEdited: as SpecReported, with the deletions the widget makes        *)
(* between the calls (BackSpace, Delete, cut), which nobody reports.       *)
(* SpecTrimmed: the same at one point in time, the deletions removing the  *)
(* end of the text only.                                                   *)
(***************************************************************************)
NextEdited ==
    \/ Tick
    \/ \E i \in 0..MaxDoc, c \in Clipboard : OnPaste(i, c)
    \/ \E i \in 0..MaxDoc : KeyReported(i, "a")
    \/ \E i \in 0..MaxDoc, n \in 1..MaxDoc : HostDelete(i, n)

SpecEdited == Init /\ [][NextEdited]_vars

NextTrimmed ==
    \/ \E i \in 0..MaxDoc, c \in Contents : OnPaste(i, c)
    \/ \E i \in 0..MaxDoc : KeyReported(i, "a")
    \/ \E n \in 1..MaxDoc : n <= Len(text) /\ HostDelete(Len(text) - n, n)

SpecTrimmed == Init /\ [][NextTrimmed]_vars

(***************************************************************************)
(* SpecSteps: the tracker's methods statement by statement.  A thread      *)
(* enters "with self.lock" only when the lock is free (threading.Lock is   *)
(* not reentrant) and leaves it at the end of the block.                   *)
(***************************************************************************)
StepPositions == {IntPos(n) : n \in 0..MaxLen}

\* metadata handed to load_metadata: what deserialize_metadata returned,
\* which nobody validated
Metas ==
    {<<>>,
     <<Range(1, 1, "manual", 0)>>,
     <<Range(1, 2, "pasted", 0), Range(0, 1, "manual", 0)>>,
     <<Range(0, 2, "manual", 0), Range(1, 3, "pasted", 0)>>}

\* the methods whose body is "with self.lock:" and the first statement
\* inside the block
LockedEntry ==
    [track_manual_input |-> "pos", track_paste_input |-> "pos",
     clear |-> "clear", get_source_at_position |-> "lookup",
     get_metadata |-> "export", load_metadata |-> "load_reset",
     get_ranges_in_area |-> "area", refresh_after_undo |-> "undo_clear",
     on_hover |-> "lookup", find_hover_range |-> "find"]

SetFrame(t, f) == frame' = [frame EXCEPT ![t] = f] /\ UNCHANGED beyondSteps
At(t, pc) == frame[t].pc = pc

\* a thread calls track_manual_input(position, character) or
\* track_paste_input(position, content) with non-empty content
CallTrack(t, op, position, n) ==
    /\ At(t, "idle")
    /\ SetFrame(t, [IdleFrame EXCEPT !.op = op, !.pc = "acquire",
                                     !.position = position, !.length = n])
    /\ UNCHANGED <<trackerVars, lock>>

\* a thread calls clear, get_metadata, get_ranges_in_area or
\* HoverManager.find_hover_range
CallPlain(t, op) ==
    /\ At(t, "idle")
    /\ SetFrame(t, [IdleFrame EXCEPT !.op = op, !.pc = "acquire"])
    /\ UNCHANGED <<trackerVars, lock>>

\* a thread calls get_source_at_position(position) or on_hover(event)
CallLookup(t, op, position) ==
    /\ At(t, "idle")
    /\ SetFrame(t, [IdleFrame EXCEPT !.op = op, !.pc = "acquire",
                                     !.position = position])
    /\ UNCHANGED <<trackerVars, lock>>

\* a thread calls load_metadata(metadata) with a 'ranges' list
CallLoadMetadata(t, metadata) ==
    /\ At(t, "idle")
    /\ SetFrame(t, [IdleFrame EXCEPT !.op = "load_metadata", !.pc = "acquire",
                                     !.meta = metadata])
    /\ UNCHANGED <<trackerVars, lock>>

\* refresh_after_undo: current_text is read before the lock is taken
CallRefreshAfterUndo(t) ==
    /\ At(t, "idle")
    /\ SetFrame(t, [IdleFrame EXCEPT !.op = "refresh_after_undo",
                                     !.pc = "acquire", !.text_len = Len(text)])
    /\ UNCHANGED <<trackerVars, lock>>

\* Application.redo: restore_from_current_text reads current_text, then
\* goes on without the lock
CallRedo(t) ==
    /\ At(t, "idle")
    /\ SetFrame(t, [IdleFrame EXCEPT !.op = "redo", !.pc = "redo_clear",
                                     !.text_len = Len(text)])
    /\ UNCHANGED <<trackerVars, lock>>

\* "with self.lock:" entered
Acquire(t) ==
    /\ At(t, "acquire")
    /\ lock = "free"
    /\ lock' = t
    /\ SetFrame(t, [frame[t] EXCEPT !.pc = LockedEntry[frame[t].op]])
    /\ UNCHANGED trackerVars

\* "with self.lock:" left; on_hover goes on after get_source_at_position
\* returned
Release(t) ==
    /\ At(t, "release")
    /\ lock' = "free"
    /\ SetFrame(t, IF frame[t].op = "on_hover" /\ frame[t].hit
                   THEN [frame[t] EXCEPT !.pc = "hover_scan"]
                   ELSE IdleFrame)
    /\ UNCHANGED trackerVars

\* start_idx = self._pos_to_index(position); end_idx = start_idx + len(..)
StepPos(t) ==
    /\ At(t, "pos")
    /\ LET start == PosToIndex(frame[t].position, text)
       IN SetFrame(t, [frame[t] EXCEPT !.pc = "deletions", !.start_idx = start,
                                       !.end_idx = start + frame[t].length])
    /\ UNCHANGED <<trackerVars, lock>>

\* self._handle_deletions()
StepDeletions(t) ==
    /\ At(t, "deletions")
    /\ input_ranges' = HandleDeletions(input_ranges, Len(text))
    /\ SetFrame(t, [frame[t] EXCEPT !.pc = "partition"])
    /\ UNCHANGED <<text, origin, clock, lock>>

\* the loop "for r in self.input_ranges" filling new_ranges
StepPartition(t) ==
    /\ At(t, "partition")
    /\ SetFrame(t, [frame[t] EXCEPT
                      !.pc = "merge",
                      !.new_ranges = Partition(input_ranges, frame[t].start_idx,
                                               frame[t].end_idx)])
    /\ UNCHANGED <<trackerVars, lock>>

\* new_ranges.append(...), the sort, the merge loop, self.input_ranges = merged
StepMerge(t) ==
    /\ At(t, "merge")
    /\ LET source == IF frame[t].op = "track_manual_input"
                     THEN "manual" ELSE "pasted"
           appended == Append(frame[t].new_ranges,
                              Range(frame[t].start_idx, frame[t].end_idx,
                                    source, clock))
       IN input_ranges' = MergeTouching(SortByStart(appended))
    /\ SetFrame(t, [frame[t] EXCEPT !.pc = "release", !.new_ranges = <<>>])
    /\ UNCHANGED <<text, origin, clock, lock>>

\* clear: self.input_ranges.clear()
StepClear(t) ==
    /\ At(t, "clear")
    /\ input_ranges' = <<>>
    /\ SetFrame(t, [frame[t] EXCEPT !.pc = "release"])
    /\ UNCHANGED <<text, origin, clock, lock>>

\* get_source_at_position: the loop over self.input_ranges
StepLookup(t) ==
    /\ At(t, "lookup")
    /\ LET source == GetSourceAtPosition(input_ranges, frame[t].position, text)
       IN SetFrame(t, [frame[t] EXCEPT !.pc = "release", !.source = source,
                                       !.hit = source # "none"])
    /\ UNCHANGED <<trackerVars, lock>>

\* get_metadata, get_ranges_in_area, find_hover_range: the read of
\* self.input_ranges inside the block
StepRead(t) ==
    /\ frame[t].pc \in {"export", "area", "find"}
    /\ SetFrame(t, [frame[t] EXCEPT !.pc = "release"])
    /\ UNCHANGED <<trackerVars, lock>>

\* load_metadata: self.input_ranges = []
StepLoadResetKeep(t) ==
    /\ At(t, "load_reset")
    /\ input_ranges' = input_ranges
    /\ SetFrame(t, [frame[t] EXCEPT !.pc = "load_fill"])
    /\ UNCHANGED <<text, origin, clock, lock>>
StepLoadReset(t) ==
    /\ At(t, "load_reset")
    /\ input_ranges' = <<>>
    /\ SetFrame(t, [frame[t] EXCEPT !.pc = "load_fill"])
    /\ UNCHANGED <<text, origin, clock, lock>>

\* load_metadata: the appends and the sort
StepLoadFill(t) ==
    /\ At(t, "load_fill")
    /\ input_ranges' = SortByStart(input_ranges \o frame[t].meta)
    /\ SetFrame(t, [frame[t] EXCEPT !.pc = "release"])
    /\ UNCHANGED <<text, origin, clock, lock>>

\* refresh_after_undo: self.input_ranges.clear()
StepUndoClearKeep(t) ==
    /\ At(t, "undo_clear")
    /\ input_ranges' = input_ranges
    /\ SetFrame(t, [frame[t] EXCEPT !.pc = "undo_append"])
    /\ UNCHANGED <<text, origin, clock, lock>>
StepUndoClear(t) ==
    /\ At(t, "undo_clear")
    /\ input_ranges' = <<>>
    /\ SetFrame(t, [frame[t] EXCEPT !.pc = "undo_append"])
    /\ UNCHANGED <<text, origin, clock, lock>>

\* refresh_after_undo: if current_text: self.input_ranges.append(...)
StepUndoAppend(t) ==
    /\ At(t, "undo_append")
    /\ input_ranges' = IF frame[t].text_len > 0
                       THEN Append(input_ranges,
                                   Range(0, frame[t].text_len, "manual", clock))
                       ELSE input_ranges
    /\ SetFrame(t, [frame[t] EXCEPT !.pc = "release"])
    /\ UNCHANGED <<text, origin, clock, lock>>

\* restore_from_current_text: self.input_ranges.clear()
StepRedoClear(t) ==
    /\ At(t, "redo_clear")
    /\ input_ranges' = <<>>
    /\ SetFrame(t, [frame[t] EXCEPT !.pc = "redo_append"])
    /\ UNCHANGED <<text, origin, clock, lock>>

\* restore_from_current_text: if current_text: self.input_ranges.append(...)
StepRedoAppend(t) ==
    /\ At(t, "redo_append")
    /\ input_ranges' = IF frame[t].text_len > 0
                       THEN Append(input_ranges,
                                   Range(0, frame[t].text_len, "pasted", clock))
                       ELSE input_ranges
    /\ SetFrame(t, [frame[t] EXCEPT !.pc = "retag"])
    /\ UNCHANGED <<text, origin, clock, lock>>

\* Application.retag_all_text: "for rng in self.text_tracker.input_ranges";
\* on_hover: "for r in self.input_ranges" after get_source_at_position
StepScan(t) ==
    /\ frame[t].pc \in {"retag", "hover_scan"}
    /\ SetFrame(t, IdleFrame)
    /\ UNCHANGED <<trackerVars, lock>>

\* the widget's text changes while the UI thread is in no tracker call
WidgetInsert(i, c) == At("ui", "idle") /\ HostInsert(i, c)
WidgetDelete(i, n) == At("ui", "idle") /\ HostDelete(i, n)

\* the calls pass integer offsets, which _pos_to_index takes as they are:
\* only the length of the widget's text matters, so one character is typed
NextSteps ==
    \/ Tick
    \/ \E i \in 0..MaxLen : WidgetInsert(i, "a")
    \/ \E i \in 0..MaxLen, n \in 1..MaxLen : WidgetDelete(i, n)
    \/ \E t \in Threads :
        \/ \E p \in StepPositions : CallTrack(t, "track_manual_input", p, 1)
        \/ \E p \in StepPositions, n \in 1..2 :
              CallTrack(t, "track_paste_input", p, n)
        \/ \E op \in {"clear", "get_metadata", "get_ranges_in_area",
                      "find_hover_range"} : CallPlain(t, op)
        \/ \E p \in StepPositions, op \in {"get_source_at_position", "on_hover"} :
              CallLookup(t, op, p)
        \/ \E m \in Metas : CallLoadMetadata(t, m)
        \/ CallRefreshAfterUndo(t)
        \/ CallRedo(t)
        \/ Acquire(t)
        \/ Release(t)
        \/ StepPos(t)
        \/ StepDeletions(t)
        \/ StepPartition(t)
        \/ StepMerge(t)
        \/ StepClear(t)
        \/ StepLookup(t)
        \/ StepRead(t)
        \/ StepLoadReset(t)
        \/ StepLoadFill(t)
        \/ StepUndoClear(t)
        \/ StepUndoAppend(t)
        \/ StepRedoClear(t)
        \/ StepRedoAppend(t)
        \/ StepScan(t)

SpecSteps == Init /\ [][NextSteps]_vars

(***************************************************************************)
(* SpecKeys: printable keystrokes.  on_key_press starts a worker thread;   *)
(* the widget inserts the character; the worker reads "insert -1c" and     *)
(* schedules track_manual_input(cursor_pos, char) with root.after; the     *)
(* main loop runs the callback later.  The worker's read of the widget is  *)
(* served by the main loop between two events.                             *)
(***************************************************************************)
\* Application.on_key_press for a printable character, then the widget's
\* own binding inserting it at the INSERT mark
KeyPress(char) ==
    /\ Len(keys) < MaxKeys
    /\ Len(text) < MaxLen
    /\ keys' = Append(keys, [char |-> char, at |-> cursor, state |-> "started",
                             cursor_pos |-> StrPos(1, 0), reported |-> 0])
    /\ text' = InsertAt(text, cursor, <<char>>)
    /\ origin' = InsertAt(origin, cursor, <<"manual">>)
    /\ cursor' = cursor + 1
    /\ UNCHANGED <<input_ranges, clock, timers, beyondKeys>>

\* track_typing in the worker thread of keystroke k:
\* cursor_pos = index("insert -1c"), then root.after(1, ...)
WorkerCapture(k) ==
    /\ k \in 1..Len(keys)
    /\ keys[k].state = "started"
    /\ keys' = [keys EXCEPT ![k].state = "scheduled",
                            ![k].cursor_pos = TkIndex(Max(cursor - 1, 0), text)]
    /\ timers' = Append(timers, k)
    /\ UNCHANGED <<trackerVars, cursor, beyondKeys>>

\* the main loop runs the oldest callback:
\* self.text_tracker.track_manual_input(cursor_pos, event.char)
TimerFire ==
    /\ timers # <<>>
    /\ LET k == Head(timers)
       IN /\ keys' = [keys EXCEPT ![k].state = "tracked",
                                  ![k].reported = PosToIndex(keys[k].cursor_pos, text)]
          /\ input_ranges' = TrackedRanges(input_ranges, keys[k].cursor_pos,
                                           <<keys[k].char>>, "manual", text, clock)
    /\ timers' = Tail(timers)
    /\ UNCHANGED <<text, origin, clock, cursor, beyondKeys>>

\* Button-1: the widget moves the INSERT mark to the clicked offset
MouseClick(i) ==
    /\ i <= Len(text)
    /\ cursor' = i
    /\ UNCHANGED <<trackerVars, keys, timers, beyondKeys>>

\* BackSpace: not printable, so not tracked; the widget deletes the
\* character before the INSERT mark
BackSpace ==
    /\ cursor > 0
    /\ text' = DeleteAt(text, cursor - 1, 1)
    /\ origin' = DeleteAt(origin, cursor - 1, 1)
    /\ cursor' = cursor - 1
    /\ UNCHANGED <<input_ranges, clock, keys, timers, beyondKeys>>

NextKeys ==
    \/ Tick
    \/ \E c \in Chars \ {NL} : KeyPress(c)
    \/ \E k \in 1..MaxKeys : WorkerCapture(k)
    \/ TimerFire
    \/ \E i \in 0..MaxLen : MouseClick(i)
    \/ BackSpace

SpecKeys == Init /\ [][NextKeys]_vars

(***************************************************************************)
(* SpecCodec: MetadataManager.  A provenance set is serialized and the     *)
(* text deserialized; a text from a file, well-formed or not, is           *)
(* deserialized.                                                           *)
(***************************************************************************)
Versions == {"1.0", "2.0"}
RangeSet ==
    {Range(s, e, src, ts) : s \in 0..MaxLen, e \in 0..MaxLen,
                            src \in Sources, ts \in {0, MaxClock}} \ 
    {r \in [start : 0..MaxLen, end : 0..MaxLen, source : Sources,
            timestamp : {0, MaxClock}] : r.start >= r.end}
ProvenanceSets == UNION {[1..n -> RangeSet] : n \in 0..MaxRanges}

Alphabet ==
    {WsTok, WordTok, NullTok, NumTok(1),
     Punct("{"), Punct("}"), Punct("["), Punct("]"), Punct(":"), Punct(","),
     StrTok("ghostkey_metadata"), StrTok("ranges"), StrTok("oranges"), StrTok("data")}
Envelope(val) == JObj(<<Member("ghostkey_metadata", val)>>)
Documents ==
    {Envelope(JNum(1)), Envelope(JNull), Envelope(JStr("data")), Envelope(JArr(<<>>)),
     Envelope(JObj(<<>>)), Envelope(JObj(<<Member("data", JNull)>>)),
     Envelope(JObj(<<Member("data", JNum(1))>>)),
     Envelope(JObj(<<Member("version", JStr("1.0"))>>)),
     JObj(<<Member("ranges", JArr(<<>>))>>), JObj(<<Member("data", JNum(1))>>),
     JArr(<<JNum(1), JStr("ghostkey_metadata")>>), JArr(<<JNull, JStr("ranges")>>),
     Envelope(JObj(<<Member("data", GetMetadata(<<Range(0, 1, "manual", 0)>>))>>)),
     Envelope(JObj(<<Member("data", GetMetadata(<<Range(2, 1, "typed", 0)>>))>>)),
     Envelope(JObj(<<Member("data", JObj(<<Member("ranges", JBool(TRUE))>>))>>)),
     JObj(<<Member("ranges", JArr(<<JFloat(0)>>))>>)}
\* range lists as a file may hold them, in the legacy form {"ranges": R}
\* and inside the envelope serialize_metadata writes
RangeLists ==
    {JArr(<<>>), JArr(<<JNum(1)>>), JArr(<<JFloat(0), JNull>>),
     JArr(<<RangeValue(Range(0, 1, "manual", 0))>>),
     JArr(<<RangeValue(Range(1, 2, "pasted", MaxClock)),
            RangeValue(Range(0, 2, "manual", 0))>>),
     JArr(<<JObj(<<Member("start", JNum(2)), Member("source", JStr("typed"))>>)>>)}
Legacy(R) == JObj(<<Member("ranges", R)>>)
Texts ==
    UNION {[1..n -> Alphabet] : n \in 0..MaxTokens}
    \cup {Dumps(v) : v \in Documents}
    \cup {Dumps(Legacy(R)) : R \in RangeLists}
    \cup {SerializeMetadata(Legacy(R), "1.0", 0) : R \in RangeLists}
    \cup {<<WsTok>> \o Dumps(v) \o <<Punct("}")>> : v \in Documents}

InitCodec ==
    /\ InitTracker
    /\ mgr = ManagerIdle
    /\ file = FileIdle
    \* the version is a label copied into the envelope: both labels on sets
    \* of up to two intervals, one label on longer sets
    /\ \/ \E S \in ProvenanceSets :
          \E version \in IF Len(S) <= 2 THEN Versions ELSE {"1.0"} :
             codec = [CodecIdle EXCEPT !.stage = "set", !.ranges = S,
                                       !.version = version]
       \/ \E t \in Texts : codec = [CodecIdle EXCEPT !.stage = "text", !.wire = t]

\* metadata_str = serialize_metadata(text_tracker.get_metadata())
Serialize ==
    /\ codec.stage = "set"
    /\ codec' = [codec EXCEPT !.stage = "serialized",
                              !.wire = SerializeMetadata(GetMetadata(codec.ranges),
                                                         codec.version, clock)]
    /\ UNCHANGED <<beyondManager, mgr>>

\* metadata = deserialize_metadata(metadata_str)
Deserialize ==
    /\ codec.stage \in {"serialized", "text"}
    /\ codec' = [codec EXCEPT !.stage = IF codec.stage = "text" THEN "read" ELSE "restored",
                              !.out = DeserializeMetadata(codec.wire)]
    /\ UNCHANGED <<beyondManager, mgr>>

\* time matters until serialize_metadata reads it
NextCodec ==
    \/ codec.stage = "set" /\ Tick
    \/ Serialize
    \/ Deserialize

SpecCodec == InitCodec /\ [][NextCodec]_vars

(***************************************************************************)
(* SpecManager: MetadataManager.validate_metadata, merge_metadata and      *)
(* get_stats, each called on arguments of every shape the bounds allow.    *)
(***************************************************************************)
\* the intervals of a set: any order, overlapping or not
IntervalsAt(ts) ==
    {Range(s, e, src, ts) : s \in 0..MaxLen, e \in 0..MaxLen, src \in Sources} \
    {r \in [start : 0..MaxLen, end : 0..MaxLen, source : Sources, timestamp : {ts}] :
        r.start >= r.end}
SetsAt(ts, n) == UNION {[1..k -> IntervalsAt(ts)] : k \in 0..n}

\* the two sets of a merge: up to MaxRanges intervals in any order, merged
\* with at most one interval written at a later time
MergePairs == SetsAt(0, MaxRanges) \X SetsAt(MaxClock, 1)

\* what a caller can hand to validate_metadata
Starts_ == {JNum(-1), JNum(0), JNum(1), JBool(FALSE), JFloat(0), JStr("0")}
Ends_ == {JNum(0), JNum(1), JNum(2), JBool(TRUE), JFloat(1), JNull}
Sources_ == {JStr("manual"), JStr("pasted"), JStr("unknown"), JNum(1)}
Entries ==
    {JObj(<<Member("start", s), Member("end", e), Member("source", src)>>) :
        s \in Starts_, e \in Ends_, src \in Sources_}
    \cup {JObj(<<Member("end", e), Member("source", JStr("manual"))>>) : e \in Ends_}
    \cup {JObj(<<Member("start", s), Member("source", JStr("manual"))>>) : s \in Starts_}
    \cup {JObj(<<Member("start", JNum(0)), Member("end", JNum(1))>>),
          JObj(<<Member("start", JNum(0)), Member("end", JNum(1)),
                 Member("source", JStr("pasted")), Member("note", JNull)>>),
          JNum(1), JStr("manual"), JArr(<<>>), JNull}
RangesOf(items) == JObj(<<Member("version", JStr("1.1")), Member("ranges", JArr(items))>>)
Candidates ==
    {GetMetadata(S) : S \in ProvenanceSets}
    \cup {RangesOf(<<e>>) : e \in Entries}
    \cup {RangesOf(<<RangeValue(Range(0, 1, "manual", 0)), e>>) : e \in Entries}
    \cup {JNull, JNum(1), JStr("ranges"), JArr(<<JStr("ranges")>>), JObj(<<>>),
          JObj(<<Member("version", JStr("1.1"))>>),
          JObj(<<Member("ranges", JStr("manual"))>>),
          JObj(<<Member("ranges", JNull)>>),
          JObj(<<Member("ranges", RangeValue(Range(0, 1, "manual", 0)))>>)}

InitManager ==
    /\ InitTracker
    /\ codec = CodecIdle
    /\ file = FileIdle
    /\ \/ \E ab \in MergePairs :
             mgr = [ManagerIdle EXCEPT !.stage = "sets", !.a = Meta("1.1", ab[1]),
                                       !.b = Meta("0.9", ab[2])]
       \/ \E S \in SetsAt(0, MaxRanges), total_length \in {0, MaxLen, MaxDoc},
             present \in BOOLEAN :
             mgr = [ManagerIdle EXCEPT !.stage = "set",
                                       !.a = IF present THEN Meta("1.1", S) ELSE NoMeta,
                                       !.total_length = total_length]
       \/ \E data \in Candidates : mgr = [ManagerIdle EXCEPT !.stage = "data", !.data = data]

\* merged = merge_metadata(a, b)
Merge ==
    /\ mgr.stage = "sets"
    /\ mgr' = [mgr EXCEPT !.stage = "merged",
                          !.merged = MergeMetadata(mgr.a, mgr.b, mgr.version),
                          !.a.ranges = ArgumentsAfterMerge(mgr.a, mgr.b)[1],
                          !.b.ranges = ArgumentsAfterMerge(mgr.a, mgr.b)[2]]
    /\ UNCHANGED <<beyondManager, codec>>

\* merge_metadata(merged, {})
MergeAgain ==
    /\ mgr.stage = "merged"
    /\ mgr' = [mgr EXCEPT !.stage = "remerged",
                          !.again = MergeMetadata(mgr.merged, NoMeta, mgr.version),
                          !.merged.ranges = ArgumentsAfterMerge(mgr.merged, NoMeta)[1]]
    /\ UNCHANGED <<beyondManager, codec>>

\* stats = get_stats(a, total_length)
Stats ==
    /\ mgr.stage = "set"
    /\ mgr' = [mgr EXCEPT !.stage = "counted",
                          !.stats = GetStats(mgr.a, mgr.total_length)]
    /\ UNCHANGED <<beyondManager, codec>>

\* valid = validate_metadata(data)
Validate ==
    /\ mgr.stage = "data"
    /\ mgr' = [mgr EXCEPT !.stage = "validated", !.valid = ValidateMetadata(mgr.data)]
    /\ UNCHANGED <<beyondManager, codec>>

NextManager ==
    \/ Merge
    \/ MergeAgain
    \/ Stats
    \/ Validate

SpecManager == InitManager /\ [][NextManager]_vars

(***************************************************************************)
(* SpecSnapshot: the caller of get_metadata keeps the dictionary while the *)
(* tracker goes on.  The tracker changes its range dictionaries and its    *)
(* list in place (r['end'] = ..., input_ranges.clear()) or replaces them   *)
(* (self.input_ranges = new_ranges); an object both sides hold shows each  *)
(* side the other's changes.                                               *)
(***************************************************************************)
\* get_metadata that hands out the tracker's own list
GetMetadataSameList(rs) ==
    [exported |-> TRUE, ranges |-> rs, link |-> [j \in 1..Len(rs) |-> j],
     sameList |-> TRUE, op |-> "get_metadata"]
\* TextTracker.get_metadata: a new list of new dictionaries
GetMetadataSnapshot(rs) ==
    [exported |-> TRUE,
     ranges |-> [j \in 1..Len(rs) |->
                    Range(rs[j].start, rs[j].end, rs[j].source, rs[j].timestamp)],
     link |-> [j \in 1..Len(rs) |-> 0],
     sameList |-> FALSE, op |-> "get_metadata"]

\* the snapshot once the tracker has replaced its list and dictionaries
Unlinked(s, op) ==
    [s EXCEPT !.link = [j \in 1..Len(s.ranges) |-> 0], !.sameList = FALSE, !.op = op]

\* _handle_deletions writes r['end'] into the tracker's dictionaries
\* before it replaces the list
SeenAfterDeletions(s, rs, current_length) ==
    [s EXCEPT !.ranges =
        [j \in 1..Len(s.ranges) |->
            IF s.link[j] > 0 /\ rs[s.link[j]].start < current_length
            THEN [s.ranges[j] EXCEPT !.end = Min(rs[s.link[j]].end, current_length)]
            ELSE s.ranges[j]]]

\* input_ranges.clear(), then the appends, on the list the tracker holds
SeenAfterClear(s, appended, op) ==
    IF s.sameList
    THEN [s EXCEPT !.ranges = appended, !.link = [j \in 1..Len(appended) |-> j],
                   !.op = op]
    ELSE Unlinked(s, op)

\* metadata = self.text_tracker.get_metadata()
Export ==
    /\ snap' = GetMetadataSnapshot(input_ranges)
    /\ UNCHANGED <<trackerVars, beyondSnapshot>>

\* track_manual_input / track_paste_input
SnapTrack(position, content, source) ==
    /\ input_ranges' = TrackedRanges(input_ranges, position, content, source,
                                     text, clock)
    /\ snap' = Unlinked(SeenAfterDeletions(snap, input_ranges, Len(text)), "track")
    /\ UNCHANGED <<text, origin, clock, beyondSnapshot>>

\* TextTracker.clear
SnapClear ==
    /\ input_ranges' = <<>>
    /\ snap' = SeenAfterClear(snap, <<>>, "clear")
    /\ UNCHANGED <<text, origin, clock, beyondSnapshot>>

\* TextTracker.load_metadata
SnapLoad(metadata) ==
    /\ input_ranges' = SortByStart(metadata)
    /\ snap' = Unlinked(snap, "load_metadata")
    /\ UNCHANGED <<text, origin, clock, beyondSnapshot>>

\* refresh_after_undo ("manual") / restore_from_current_text ("pasted")
SnapReset(source) ==
    /\ input_ranges' = IF text = <<>> THEN <<>>
                       ELSE <<Range(0, Len(text), source, clock)>>
    /\ snap' = SeenAfterClear(snap, input_ranges',
                              IF source = "manual" THEN "refresh_after_undo"
                              ELSE "restore_from_current_text")
    /\ UNCHANGED <<text, origin, clock, beyondSnapshot>>

\* the caller writes metadata['ranges'][j - 1]['end'] = end
CallerSetsEnd(j, end) ==
    /\ snap.exported
    /\ j \in 1..Len(snap.ranges)
    /\ snap.ranges[j].end # end
    /\ snap' = [snap EXCEPT !.ranges[j].end = end, !.op = "caller"]
    /\ input_ranges' = IF snap.link[j] > 0
                       THEN [input_ranges EXCEPT ![snap.link[j]].end = end]
                       ELSE input_ranges
    /\ UNCHANGED <<text, origin, clock, beyondSnapshot>>

\* the caller runs metadata['ranges'].pop()
CallerPops ==
    /\ snap.exported
    /\ snap.ranges # <<>>
    /\ snap' = [snap EXCEPT !.ranges = SubSeq(@, 1, Len(@) - 1),
                            !.link = SubSeq(@, 1, Len(@) - 1), !.op = "caller"]
    /\ input_ranges' = IF snap.sameList
                       THEN SubSeq(input_ranges, 1, Len(input_ranges) - 1)
                       ELSE input_ranges
    /\ UNCHANGED <<text, origin, clock, beyondSnapshot>>

SnapshotMetas ==
    {<<Range(1, 2, "pasted", 0), Range(0, 1, "manual", 0)>>}

NextSnapshot ==
    \/ \E i \in 0..MaxLen : HostInsert(i, "a")
    \/ \E i \in 0..MaxLen : HostDelete(i, 1)
    \/ Export
    \/ \E p \in StepPositions : SnapTrack(p, <<"a">>, "manual")
    \/ SnapClear
    \/ \E m \in SnapshotMetas : SnapLoad(m)
    \/ \E source \in Sources : SnapReset(source)
    \/ \E j \in 1..(MaxLen + 2) : CallerSetsEnd(j, 0)
    \/ CallerPops

SpecSnapshot == Init /\ [][NextSnapshot]_vars

(***************************************************************************)
(* SpecReaders: TextTracker called from two execution contexts, which is   *)
(* what self.lock = threading.Lock() is there for: one records keystrokes  *)
(* while the other one reads (on_hover, get_metadata).  The statements     *)
(* are those of SpecSteps.                                                 *)
(***************************************************************************)
Contexts == {"ui", "worker"}

InitReaders ==
    /\ snap = NoSnapshot
    /\ text = <<>>
    /\ origin = <<>>
    /\ input_ranges = <<>>
    /\ clock = 0
    /\ lock = "free"
    /\ frame = [t \in Contexts |-> IdleFrame]
    /\ cursor = 0
    /\ keys = <<>>
    /\ timers = <<>>
    /\ codec = CodecIdle
    /\ mgr = ManagerIdle
    /\ file = FileIdle

NextReaders ==
    \/ \E i \in 0..MaxLen : WidgetInsert(i, "a")
    \/ \E i \in 0..MaxLen : WidgetDelete(i, 1)
    \/ \E p \in StepPositions : CallTrack("worker", "track_manual_input", p, 1)
    \/ \E p \in StepPositions : CallLookup("ui", "on_hover", p)
    \/ CallPlain("ui", "get_metadata")
    \/ \E t \in Contexts :
        \/ Acquire(t)
        \/ Release(t)
        \/ StepPos(t)
        \/ StepDeletions(t)
        \/ StepPartition(t)
        \/ StepMerge(t)
        \/ StepLookup(t)
        \/ StepRead(t)
        \/ StepScan(t)

SpecReaders == InitReaders /\ [][NextReaders]_vars

(***************************************************************************)
(* SpecCalls: every method that takes the tracker's lock, called from two  *)
(* execution contexts, with the exits an exception makes.  A statement     *)
(* inside "with self.lock:" can raise: _handle_deletions reads the widget  *)
(* (tk.TclError), load_metadata calls range_data.get and sorts what the    *)
(* file held, get_source_at_position compares what load_metadata stored;   *)
(* _pos_to_index catches what it raises itself.  The with statement        *)
(* releases the lock before the exception reaches the handler or the       *)
(* caller.  A widget read returns; a context that started a call goes on   *)
(* running it, and a context waiting for the lock gets it if the lock is   *)
(* free again and again.                                                   *)
(***************************************************************************)
RaisingPcs == {"deletions", "load_fill", "lookup"}

\* an exception that leaves the call with the lock still taken
RaiseKeepsLock(t) ==
    /\ frame[t].pc \in RaisingPcs
    /\ SetFrame(t, IdleFrame)
    /\ UNCHANGED <<trackerVars, lock>>

\* a statement of the locked section raises: the with statement's exit
\* comes next; get_source_at_position returns None to on_hover
RaiseInside(t) ==
    /\ frame[t].pc \in RaisingPcs
    /\ SetFrame(t, [frame[t] EXCEPT !.pc = "release", !.raised = TRUE,
                                    !.hit = FALSE])
    /\ UNCHANGED <<trackerVars, lock>>

\* the statements of a call, from the one after "with self.lock:" was
\* entered to the return
Statement(t) ==
    \/ Release(t)
    \/ StepPos(t)
    \/ StepDeletions(t)
    \/ StepPartition(t)
    \/ StepMerge(t)
    \/ StepLookup(t)
    \/ StepRead(t)
    \/ StepLoadReset(t)
    \/ StepLoadFill(t)
    \/ StepScan(t)

\* the lock is taken and released whatever the offsets are: one character
\* is typed and the calls are made at the start of the text
NextCalls ==
    \/ text = <<>> /\ WidgetInsert(0, "a")
    \/ \E t \in Contexts :
        \/ CallTrack(t, "track_manual_input", IntPos(0), 1)
        \/ CallTrack(t, "track_paste_input", IntPos(0), 1)
        \/ \E op \in {"get_metadata", "get_ranges_in_area", "find_hover_range"} :
              CallPlain(t, op)
        \/ \E op \in {"get_source_at_position", "on_hover"} :
              CallLookup(t, op, IntPos(0))
        \/ CallLoadMetadata(t, <<Range(0, 1, "pasted", 0)>>)
        \/ Acquire(t)
        \/ RaiseInside(t)
        \/ Statement(t)

SpecCalls ==
    /\ InitReaders
    /\ [][NextCalls]_vars
    /\ \A t \in Contexts : WF_vars(Statement(t)) /\ SF_vars(Acquire(t))

(***************************************************************************)
(* SpecFile: a .lakra file of any text the bounds allow is read and        *)
(* parsed.                                                                 *)
(***************************************************************************)
FileAlphabet == {WordTok, WsTok, MetadataStart, MetadataEnd}
\* what _create_lakra_content writes for a document and its metadata
Embedded(content, metadata_json) ==
    content \o <<WsTok, MetadataStart, WsTok>> \o metadata_json
            \o <<WsTok, MetadataEnd>>
Files ==
    UNION {[1..n -> FileAlphabet] : n \in 0..(MaxTokens + 1)}
    \cup {Embedded(<<WordTok>>, Dumps(v)) : v \in Documents}
    \cup {Embedded(<<WordTok, WsTok>>, SerializeMetadata(GetMetadata(S), "1.0", 0)) :
             S \in ProvenanceSets}

InitFile ==
    /\ InitTracker
    /\ codec = CodecIdle
    /\ mgr = ManagerIdle
    /\ \E file_content \in Files :
          file = [FileIdle EXCEPT !.stage = "read", !.file_content = file_content]

\* load_file: return self._parse_lakra_content(file_content)
ParseFile ==
    /\ file.stage = "read"
    /\ file' = [file EXCEPT !.stage = "parsed",
                            !.loaded = ParseLakraContent(file.file_content)]
    /\ UNCHANGED beyondFile

NextFile == ParseFile

SpecFile == InitFile /\ [][NextFile]_vars

(***************************************************************************)
(* SpecSaved: a document and its metadata are written to a .lakra file     *)
(* (save_file) and the file is read back (load_file).                      *)
(***************************************************************************)
SavedContents == UNION {[1..n -> FileAlphabet] : n \in 0..MaxTokens}
\* what the editor hands to save_file is get_metadata(); other callers can
\* hand None, an empty dictionary or a dictionary validate_metadata refuses
SavedMetadata ==
    {GetMetadata(S) : S \in SetsAt(0, 1)}
    \cup {JNull, JObj(<<>>), Legacy(JArr(<<JNum(1)>>))}

InitSaved ==
    /\ InitTracker
    /\ codec = CodecIdle
    /\ mgr = ManagerIdle
    /\ \E content \in SavedContents, metadata \in SavedMetadata :
          file = [FileIdle EXCEPT !.stage = "save", !.content = content,
                                  !.metadata = metadata]

\* save_file: file.write(self._create_lakra_content(content, metadata))
SaveFile ==
    /\ file.stage = "save"
    /\ file' = [file EXCEPT !.stage = "read",
                            !.file_content = CreateLakraContent(file.content,
                                                                file.metadata, clock)]
    /\ UNCHANGED beyondFile

NextSaved ==
    \/ file.stage = "save" /\ Tick
    \/ SaveFile
    \/ ParseFile

SpecSaved == InitSaved /\ [][NextSaved]_vars

(***************************************************************************)
(* SpecEditor: the editor's calls of the tracker, each taken as one step   *)
(* (the lock is free between two calls of the Tk main loop), the frame     *)
(* keeping the last call and what it returned.                             *)
(***************************************************************************)
\* the call returns: open_file's file text is gone with its locals
Returned(f) ==
    /\ frame' = [frame EXCEPT !["ui"] = f]
    /\ file' = FileIdle
    /\ UNCHANGED <<lock, keyVars, codec, mgr, snap>>

\* track_manual_input(position, character) / track_paste_input(position, content)
EditorTrack(position, content, source) ==
    /\ lock = "free"
    /\ input_ranges' = TrackedRanges(input_ranges, position, content, source,
                                     text, clock)
    /\ Returned([IdleFrame EXCEPT
                    !.op = IF source = "manual" THEN "track_manual_input"
                           ELSE "track_paste_input",
                    !.position = position, !.length = Len(content),
                    !.start_idx = PosToIndex(position, text),
                    !.end_idx = PosToIndex(position, text) + Len(content)])
    /\ UNCHANGED <<text, origin, clock>>

\* load_metadata(metadata)
EditorLoad(metadata) ==
    /\ lock = "free"
    /\ input_ranges' = SortByStart(metadata)
    /\ Returned([IdleFrame EXCEPT !.op = "load_metadata", !.meta = metadata])
    /\ UNCHANGED <<text, origin, clock>>

\* get_ranges_in_area(start_pos, end_pos)
EditorRangesInArea(start_pos, end_pos) ==
    /\ lock = "free"
    /\ LET start_idx == PosToIndex(start_pos, text)
           end_idx == PosToIndex(end_pos, text)
       IN Returned([IdleFrame EXCEPT
                       !.op = "get_ranges_in_area", !.position = start_pos,
                       !.start_idx = start_idx, !.end_idx = end_idx,
                       !.result = RangesInArea(input_ranges, start_idx, end_idx)])
    /\ UNCHANGED trackerVars

\* get_source_at_position(position)
EditorSourceAt(position) ==
    /\ lock = "free"
    /\ Returned([IdleFrame EXCEPT
                    !.op = "get_source_at_position", !.position = position,
                    !.source = GetSourceAtPosition(input_ranges, position, text)])
    /\ UNCHANGED trackerVars

\* TextTracker.clear
EditorClear ==
    /\ lock = "free"
    /\ input_ranges' = <<>>
    /\ Returned([IdleFrame EXCEPT !.op = "clear"])
    /\ UNCHANGED <<text, origin, clock>>

\* Application.new_file
NewFile ==
    /\ lock = "free"
    /\ text' = <<>>
    /\ origin' = <<>>
    /\ input_ranges' = <<>>
    /\ Returned([IdleFrame EXCEPT !.op = "new_file"])
    /\ UNCHANGED clock

\* open_file without its text_tracker.clear(): a file with no metadata
\* leaves the previous document's intervals in place
OpenFileNoClear(file_content, lakra) ==
    /\ lock = "free"
    /\ LET loaded == IF lakra THEN ParseLakraContent(file_content)
                     ELSE Loaded(file_content, Absent)
       IN /\ file' = [file EXCEPT !.stage = "opened",
                                      !.file_content = file_content,
                                      !.loaded = loaded]
          /\ text' = ToChars(loaded.content)
          /\ origin' = [i \in 1..Len(loaded.content) |-> "none"]
          /\ input_ranges' = IF Truthy(loaded.metadata.val)
                             THEN LoadMetadata(<<>>, loaded.metadata.val, clock)
                             ELSE input_ranges
    /\ frame' = [frame EXCEPT !["ui"] = [IdleFrame EXCEPT !.op = "open_file"]]
    /\ UNCHANGED <<clock, lock, keyVars, codec, mgr, snap>>

\* Application.open_file on a file of the text file_content, a .lakra file
\* or not: load_file, delete, clear, insert, "if metadata: load_metadata"
OpenFile(file_content, lakra) ==
    /\ lock = "free"
    /\ LET loaded == IF lakra THEN ParseLakraContent(file_content)
                     ELSE Loaded(file_content, Absent)
       IN /\ file' = [file EXCEPT !.stage = "opened",
                                      !.file_content = file_content,
                                      !.loaded = loaded]
          /\ text' = ToChars(loaded.content)
          /\ origin' = [i \in 1..Len(loaded.content) |-> "none"]
          /\ input_ranges' = IF Truthy(loaded.metadata.val)
                             THEN LoadMetadata(<<>>, loaded.metadata.val, clock)
                             ELSE <<>>
    /\ frame' = [frame EXCEPT !["ui"] = [IdleFrame EXCEPT !.op = "open_file"]]
    /\ UNCHANGED <<clock, lock, keyVars, codec, mgr, snap>>

\* the documents opened: up to MaxLen characters, then nothing, a start
\* delimiter alone, or metadata between the delimiters
PlainTexts == {<<>>, <<WordTok>>, <<WordTok, WsTok>>}
MetadataTexts ==
    {<<>>, <<WsTok>>, <<WordTok>>, Dumps(Envelope(JObj(<<>>))),
     Dumps(Envelope(JObj(<<Member("data", JObj(<<>>))>>))),
     Dumps(JObj(<<Member("ranges", JNum(1))>>)),
     Dumps(JArr(<<JNull, JStr("ranges")>>)),
     Dumps(JObj(<<Member("ranges", JArr(<<RangeValue(Range(1, 2, "pasted", 0)),
                                          JNum(1)>>))>>))}
    \cup {SerializeMetadata(GetMetadata(m), "1.0", 0) :
             m \in {<<>>, <<Range(1, 2, "pasted", 0), Range(0, 1, "manual", 0)>>}}
LakraFiles ==
    {<<>>, <<WordTok, WsTok>>}
    \cup {<<WordTok, WsTok, MetadataStart>> \o metadata_json :
             metadata_json \in MetadataTexts}
    \cup {Embedded(<<WordTok>>, metadata_json) : metadata_json \in MetadataTexts}

NextEditor ==
    \/ \E i \in 0..MaxLen : WidgetInsert(i, "a")
    \/ \E i \in 0..MaxLen : WidgetDelete(i, 1)
    \/ \E p \in StepPositions, source \in Sources : EditorTrack(p, <<"a">>, source)
    \/ \E m \in Metas : EditorLoad(m)
    \/ \E p \in StepPositions, q \in {IntPos(1), IntPos(MaxLen)} :
          EditorRangesInArea(p, q)
    \/ \E p \in StepPositions : EditorSourceAt(p)
    \/ EditorClear
    \/ NewFile
    \/ \E file_content \in LakraFiles : OpenFile(file_content, TRUE)
    \/ \E file_content \in PlainTexts : OpenFile(file_content, FALSE)

SpecEditor == Init /\ [][NextEditor]_vars

(***************************************************************************)
(* SpecSession: a document is edited and tracked (insertions at any        *)
(* position >= 0, clear, the resets of undo and redo, the text changing    *)
(* freely in between), then saved to a .lakra file, then that file is      *)
(* opened.                                                                 *)
(***************************************************************************)
\* TextTracker.clear
Clear ==
    /\ input_ranges' = <<>>
    /\ UNCHANGED <<text, origin, clock, beyondTracker>>

\* the reset without its "if current_text:"
SingleSpanAlways(t, source, now) == <<Range(0, Len(t), source, now)>>
\* what refresh_after_undo and restore_from_current_text leave
SingleSpanOf(t, source, now) ==
    IF t = <<>> THEN <<>> ELSE <<Range(0, Len(t), source, now)>>

\* refresh_after_undo ("manual") / restore_from_current_text ("pasted")
ResetAsSingleSpan(source) ==
    /\ input_ranges' = SingleSpanOf(text, source, clock)
    /\ UNCHANGED <<text, origin, clock, beyondTracker>>

\* Application.save_to_file to a .lakra path
SaveToFile ==
    /\ file' = [FileIdle EXCEPT
                   !.stage = "saved",
                   !.content = ToTokens(text),
                   !.metadata = GetMetadata(input_ranges),
                   !.file_content = CreateLakraContent(ToTokens(text),
                                                       GetMetadata(input_ranges),
                                                       clock)]
    /\ UNCHANGED <<trackerVars, stepVars, keyVars, codec, mgr, snap>>

SessionChars == Chars \cup {MetadataStart.s}

NextSession ==
    \/ /\ file.stage = "idle"
       /\ \/ \E i \in 0..MaxLen, c \in SessionChars : HostInsert(i, c)
          \/ \E i \in 0..MaxLen : HostDelete(i, 1)
          \/ \E p \in StepPositions : TrackManualInput(p, <<"a">>)
          \/ \E p \in StepPositions, c \in Contents : TrackPasteInput(p, c)
          \/ Clear
          \/ \E source \in Sources : ResetAsSingleSpan(source)
          \/ SaveToFile
    \/ file.stage = "saved" /\ OpenFile(file.file_content, TRUE)

SpecSession == Init /\ [][NextSession]_vars

(***************************************************************************)
(* C1: after any sequence of record_insertion calls from the empty         *)
(* tracker, the intervals are sorted ascending by start and pairwise       *)
(* disjoint: no two of them share an offset, and each ends at or before    *)
(* the start of the next.                                                  *)
(***************************************************************************)
SortedDisjoint(rs) ==
    /\ \A i \in 1..(Len(rs) - 1) :
          /\ rs[i].start <= rs[i + 1].start
          /\ rs[i].end <= rs[i + 1].start
    /\ \A i, j \in 1..Len(rs) :
          i # j => ~(\E k \in rs[i].start..(rs[i].end - 1) :
                        rs[j].start <= k /\ k < rs[j].end)

C1_SortedDisjoint == SortedDisjoint(input_ranges)

\* an insertion has split an interval: three intervals, the middle one
\* of the other source
C1_Witness ==
    /\ Len(input_ranges) = 3
    /\ input_ranges[1].source = input_ranges[3].source
    /\ input_ranges[2].source # input_ranges[1].source
    /\ input_ranges[1].end = input_ranges[2].start
    /\ input_ranges[2].end = input_ranges[3].start

(***************************************************************************)
(* C2: in a history made only of reported insertions, for every position   *)
(* p of the text get_source_at_position(p) is the source with which the    *)
(* character at p was inserted, and the interval set is the run-length     *)
(* encoding of the per-character sources.                                  *)
(***************************************************************************)
RECURSIVE RunLengths(_, _)
\* the maximal runs of equal tags of the sequence tags, from offset base
RunLengths(tags, base) ==
    IF tags = <<>> THEN <<>>
    ELSE LET n == CHOOSE k \in 1..Len(tags) :
                      /\ \A j \in 1..k : tags[j] = tags[1]
                      /\ (k = Len(tags) \/ tags[k + 1] # tags[1])
         IN <<[start |-> base, end |-> base + n, source |-> tags[1]]>>
            \o RunLengths(SubSeq(tags, n + 1, Len(tags)), base + n)

Spans(rs) == [k \in 1..Len(rs) |->
                 [start |-> rs[k].start, end |-> rs[k].end, source |-> rs[k].source]]

C2_SourceIsOrigin ==
    /\ \A p \in 0..(Len(text) - 1) :
          /\ GetSourceAtPosition(input_ranges, IntPos(p), text) = origin[p + 1]
          /\ GetSourceAtPosition(input_ranges, TkIndex(p, text), text) = origin[p + 1]
    /\ Spans(input_ranges) = RunLengths(origin, 0)

\* a paste has landed inside typed text on the second line
C2_Witness ==
    /\ Len(text) = 3
    /\ text[1] = NL
    /\ origin = <<"pasted", "manual", "pasted">>
    /\ Len(input_ranges) = 3

(***************************************************************************)
(* C3: after every record_insertion no two adjacent intervals have the     *)
(* same source and touch (prev.end = next.start): such pairs are merged    *)
(* into one interval.                                                      *)
(***************************************************************************)
C3_NoTouchingSameSource ==
    \A i \in 1..(Len(input_ranges) - 1) :
        ~(/\ input_ranges[i].source = input_ranges[i + 1].source
          /\ input_ranges[i].end = input_ranges[i + 1].start)

\* record_insertion(0, 1, Manual) then record_insertion(1, 1, Manual):
\* manual characters arrive one at a time, so a manual interval of length
\* two is a coalesced one
C3_Witness ==
    /\ Len(input_ranges) = 1
    /\ input_ranges[1].source = "manual"
    /\ input_ranges[1].start = 0
    /\ input_ranges[1].end = 2

(***************************************************************************)
(* C4: a record_insertion request that would produce an interval with      *)
(* start >= end (length zero), or whose offset is negative, is a no-op:    *)
(* the interval set stays exactly as it was.                               *)
(***************************************************************************)
InvalidRequest(p, c) == Len(c) = 0 \/ PosToIndex(p, text) < 0

C4_InvalidRequestIsNoOp ==
    [][\A p \in AnyPositions, c \in AnyContents :
          /\ InvalidRequest(p, c)
          /\ (TrackManualInput(p, c) \/ TrackPasteInput(p, c))
          => input_ranges' = input_ranges]_vars

(***************************************************************************)
(* C5: every statement that reads or writes the tracker's interval set     *)
(* runs while its thread holds the tracker's lock.                         *)
(***************************************************************************)
\* the statements that touch self.input_ranges
AccessPcs ==
    {"deletions", "partition", "merge", "clear", "lookup", "export", "area",
     "find", "load_reset", "load_fill", "undo_clear", "undo_append",
     "redo_clear", "redo_append", "retag", "hover_scan"}

C5_AccessUnderLock ==
    \A t \in Threads : frame[t].pc \in AccessPcs => lock = t

(***************************************************************************)
(* C7: reconcile_deletions(L), the first step of every record_insertion,   *)
(* drops every interval with start >= L, sets end = L on every remaining   *)
(* interval with end > L, drops an interval left with end <= start, and    *)
(* leaves every other interval unchanged and in the same order.            *)
(***************************************************************************)
Truncated(r, L) == IF r.end > L THEN [r EXCEPT !.end = L] ELSE r

Reconciled(old, L) ==
    LET kept == SelectSeq(old, LAMBDA r :
                    r.start < L /\ Truncated(r, L).end > Truncated(r, L).start)
    IN [k \in 1..Len(kept) |-> Truncated(kept[k], L)]

C7_ReconcileDeletions ==
    [][\A t \in Threads :
          At(t, "deletions") /\ frame'[t].pc = "partition"
          => input_ranges' = Reconciled(input_ranges, Len(text))]_vars

\* _handle_deletions is about to run on a set holding an interval to
\* truncate ({0,2} against a text of length 1)
C7_Witness ==
    \E t \in Threads :
        /\ At(t, "deletions")
        /\ Len(text) = 1
        /\ \E k \in 1..Len(input_ranges) :
              input_ranges[k].start = 0 /\ input_ranges[k].end = 2

(***************************************************************************)
(* C8 as stated: an interval r straddling the insertion point              *)
(* (r.start < position < r.end) is replaced by a left remainder            *)
(* [r.start, position) and a right remainder [position, r.end + length),   *)
(* both keeping r's source and timestamp.                                  *)
(***************************************************************************)
Straddles(r, position) == r.start < position /\ position < r.end

SplitInto(old, new, position, rightStart, length) ==
    /\ \A i \in 1..Len(old) :
          Straddles(old[i], position) =>
             \E k \in 1..(Len(new) - 1) :
                /\ new[k] = Range(old[i].start, position,
                                  old[i].source, old[i].timestamp)
                /\ new[k + 1] = Range(rightStart, old[i].end + length,
                                      old[i].source, old[i].timestamp)
    /\ Len(new) = Len(old)
                  + Cardinality({i \in 1..Len(old) : Straddles(old[i], position)})

C6_OffsetIsInsertionIndex ==
    \A k \in 1..Len(keys) :
        keys[k].state = "tracked" => keys[k].reported = keys[k].at

(***************************************************************************)
(* C9: round trip.  For every valid provenance set S, whatever the         *)
(* envelope's created time and version,                                    *)
(* deserialize_metadata(serialize_metadata(S)) is present and its ranges   *)
(* are S's ranges: same intervals, same order, same start, end, source.    *)
(***************************************************************************)
SameRanges(val, S) ==
    /\ val.t = "obj" /\ HasKey(val, "ranges")
    /\ LET rs == Get(val, "ranges")
       IN /\ rs.t = "arr" /\ Len(rs.items) = Len(S)
          /\ \A i \in 1..Len(S) :
                /\ rs.items[i].t = "obj"
                /\ \A key \in {"start", "end", "source"} : HasKey(rs.items[i], key)
                /\ Get(rs.items[i], "start") = JNum(S[i].start)
                /\ Get(rs.items[i], "end") = JNum(S[i].end)
                /\ Get(rs.items[i], "source") = JStr(S[i].source)

C9_RoundTrip ==
    codec.stage = "restored" =>
        /\ codec.out.present
        /\ codec.out.propagated = ""
        /\ SameRanges(codec.out.val, codec.ranges)

\* an unsorted set of two intervals, version "2.0", serialized after time 0
C9_Witness ==
    /\ codec.stage = "restored"
    /\ Len(codec.ranges) = 2
    /\ codec.ranges[1].start > codec.ranges[2].start
    /\ codec.ranges[1].source # codec.ranges[2].source
    /\ codec.version = "2.0"
    /\ Get(Get(Loads(codec.wire).val, "ghostkey_metadata"), "created") = JNum(MaxClock)
    /\ codec.out.present

(***************************************************************************)
(* C10: deserialize_metadata returns None on every text that is empty,     *)
(* whitespace only or not parseable, and lets no exception reach the       *)
(* caller on any text.                                                     *)
(***************************************************************************)
Unparseable(metadata_str) == IsBlank(metadata_str) \/ ~Loads(metadata_str).ok

C10_AbsentNeverRaises ==
    codec.stage \in {"read", "restored"} =>
        /\ codec.out.propagated = ""
        /\ Unparseable(codec.wire) => ~codec.out.present

\* decode("not json") has returned None
C10_Witness ==
    /\ codec.stage = "read"
    /\ codec.wire = <<WordTok, WsTok, WordTok>>
    /\ codec.out = Absent

(***************************************************************************)
(* C11: every value deserialize_metadata returns as present is one that    *)
(* validate_metadata accepts: a parseable text whose envelope is           *)
(* structurally invalid (data not an object with a ranges list, or ranges  *)
(* breaking start >= 0, start < end, source manual or pasted) comes back   *)
(* as None.                                                                *)
(***************************************************************************)
C11_PresentIsValid ==
    (codec.stage \in {"read", "restored"} /\ codec.out.present)
        => ValidateMetadata(codec.out.val)

(***************************************************************************)
(* C12: stats consistency.  For any provenance set and any                 *)
(* total_length >= 0, get_stats returns typed_chars + pasted_chars +       *)
(* unknown_chars = total_chars (the three percentages adding up to 100)    *)
(* with all three >= 0, also when the tracked length exceeds total_length. *)
(***************************************************************************)
C12_StatsAddUp ==
    (mgr.stage = "counted" /\ mgr.a.present) =>
        LET st == mgr.stats
        IN /\ st.typed_chars + st.pasted_chars + st.unknown_chars = st.total_chars
           /\ st.typed_chars >= 0 /\ st.pasted_chars >= 0 /\ st.unknown_chars >= 0
           /\ st.total_chars > 0 =>
                 /\ st.typed_percentage.den = st.total_chars
                 /\ st.pasted_percentage.den = st.total_chars
                 /\ st.unknown_percentage.den = st.total_chars
                 /\ st.typed_percentage.num + st.pasted_percentage.num
                        + st.unknown_percentage.num = 100 * st.total_chars

Normalized(rs) ==
    \A i \in 1..(Len(rs) - 1) :
        /\ rs[i].start <= rs[i + 1].start
        /\ rs[i].end <= rs[i + 1].start
        /\ ~(rs[i].source = rs[i + 1].source /\ rs[i].end = rs[i + 1].start)

C14_MergeNormalized ==
    (mgr.stage = "merged" /\ Normalized(mgr.a.ranges) /\ Normalized(mgr.b.ranges))
        => Normalized(mgr.merged.ranges)

(***************************************************************************)
(* C15: merge_metadata(a, b) returns the intervals of a and of b together, *)
(* sorted by start and coalesced in one pass from the left: an interval is *)
(* absorbed into the previous output interval exactly when it has the same *)
(* source and prev.end >= its start, the absorbing end becoming the max of *)
(* the two ends; the version returned is the manager's own, whatever       *)
(* versions a and b carry.                                                 *)
(***************************************************************************)
\* the sequence sorted by start, equal starts keeping their order
SortedByStart(rs) ==
    LET p == CHOOSE q \in Permutations(1..Len(rs)) :
                 \A i, j \in 1..Len(rs) :
                     i < j => \/ rs[q[i]].start < rs[q[j]].start
                              \/ rs[q[i]].start = rs[q[j]].start /\ q[i] < q[j]
    IN [i \in 1..Len(rs) |-> rs[p[i]]]
\* the output after the first k intervals of the sorted sequence
Absorbed(rs) ==
    LET out[k \in 0..Len(rs)] ==
            IF k = 0 THEN <<>>
            ELSE LET prev == out[k - 1]
                     cur == rs[k]
                     last == prev[Len(prev)]
                 IN IF Len(prev) > 0 /\ last.source = cur.source /\ last.end >= cur.start
                    THEN SubSeq(prev, 1, Len(prev) - 1)
                         \o <<[last EXCEPT !.end = IF cur.end > last.end
                                                  THEN cur.end ELSE last.end]>>
                    ELSE prev \o <<cur>>
    IN out[Len(rs)]

C15_MergeIsSortedPass ==
    mgr.stage = "merged" =>
        /\ mgr.merged.version = mgr.version
        /\ mgr.merged.ranges = Absorbed(SortedByStart(mgr.a.ranges \o mgr.b.ranges))

\* an interval of b overlapped by a same-source interval of a that ends later
C15_Witness ==
    /\ mgr.stage = "merged"
    /\ mgr.a.version # mgr.version /\ mgr.b.version # mgr.version
    /\ Len(mgr.a.ranges) = 1 /\ Len(mgr.b.ranges) = 1
    /\ mgr.a.ranges[1].source = mgr.b.ranges[1].source
    /\ mgr.a.ranges[1].start <= mgr.b.ranges[1].start
    /\ mgr.a.ranges[1].end > mgr.b.ranges[1].end
    /\ mgr.merged.ranges = mgr.a.ranges

(***************************************************************************)
(* C16: validate_metadata(data) is true exactly when data is an object     *)
(* with a ranges list whose every entry has integer start and end with     *)
(* 0 <= start < end and a source that is manual or pasted; order and       *)
(* disjointness of the entries play no part.                               *)
(***************************************************************************)
WellFormedEntry(e) ==
    /\ e.t = "obj"
    /\ HasKey(e, "start") /\ HasKey(e, "end") /\ HasKey(e, "source")
    /\ Get(e, "start").t = "num" /\ Get(e, "end").t = "num"
    /\ 0 <= Get(e, "start").n /\ Get(e, "start").n < Get(e, "end").n
    /\ Get(e, "source").t = "str" /\ Get(e, "source").s \in {"manual", "pasted"}
WellFormed(data) ==
    /\ data.t = "obj"
    /\ HasKey(data, "ranges")
    /\ Get(data, "ranges").t = "arr"
    /\ \A i \in 1..Len(Get(data, "ranges").items) :
          WellFormedEntry(Get(data, "ranges").items[i])

C16_ValidIffWellFormed ==
    mgr.stage = "validated" => (mgr.valid <=> WellFormed(mgr.data))

(***************************************************************************)
(* C17: coverage conservation.  One record_insertion of length n never     *)
(* raises the total tracked length (the sum of end - start) by more than   *)
(* n, whatever the set and the buffer length: reconciliation only lowers   *)
(* it, and the offsets tracked afterwards are the offsets tracked before,  *)
(* moved past the insertion, plus the n inserted ones.                     *)
(***************************************************************************)
RECURSIVE TotalTracked(_)
TotalTracked(rs) ==
    IF rs = <<>> THEN 0 ELSE Head(rs).end - Head(rs).start + TotalTracked(Tail(rs))

Covered(rs) == UNION {rs[k].start..(rs[k].end - 1) : k \in 1..Len(rs)}

C17_CoverageConservation ==
    [][\A t \in Threads :
          /\ At(t, "deletions") /\ frame'[t].pc = "partition"
             => TotalTracked(input_ranges') <= TotalTracked(input_ranges)
          /\ At(t, "partition") => input_ranges' = input_ranges
          /\ At(t, "merge") /\ frame'[t].pc = "release"
             => /\ TotalTracked(input_ranges')
                      <= TotalTracked(input_ranges) + frame[t].length
                /\ Covered(input_ranges')
                      = {IF p < frame[t].start_idx THEN p ELSE p + frame[t].length :
                            p \in Covered(input_ranges)}
                        \cup frame[t].start_idx..(frame[t].end_idx - 1)]_vars

\* an insertion has been recorded past the end of a tracked interval, the
\* characters in between staying untracked
C17_Witness ==
    \E t \in Threads :
        /\ At(t, "release")
        /\ frame[t].op \in {"track_manual_input", "track_paste_input"}
        /\ Len(input_ranges) = 2
        /\ input_ranges[1].end < input_ranges[2].start
        /\ input_ranges[2].start = frame[t].start_idx
        /\ input_ranges[2].end = frame[t].end_idx

(***************************************************************************)
(* C19: load_metadata(set) replaces the interval set wholesale: when it    *)
(* is done the tracker holds exactly the intervals of the given set,       *)
(* nothing of what it held before, sorted ascending by start whatever the  *)
(* order given.                                                            *)
(***************************************************************************)
Occurrences(rs, r) == Cardinality({k \in 1..Len(rs) : rs[k] = r})
SameIntervals(rs, given) ==
    /\ Len(rs) = Len(given)
    /\ \A k \in 1..Len(given) : Occurrences(rs, given[k]) = Occurrences(given, given[k])

C19_LoadReplaces ==
    [][\A t \in Threads :
          At(t, "load_fill") /\ frame'[t].pc = "release"
          => /\ SameIntervals(input_ranges', frame[t].meta)
             /\ \A k \in 1..(Len(input_ranges') - 1) :
                   input_ranges'[k].start <= input_ranges'[k + 1].start]_vars

\* a set given out of order has been loaded and re-sorted
C19_Witness ==
    \E t \in Threads :
        /\ At(t, "release")
        /\ frame[t].op = "load_metadata"
        /\ Len(frame[t].meta) = 2
        /\ frame[t].meta[1].start > frame[t].meta[2].start
        /\ input_ranges = <<frame[t].meta[2], frame[t].meta[1]>>

(***************************************************************************)
(* C20: after refresh_after_undo (source manual) and after                 *)
(* restore_from_current_text (source pasted) the tracker holds exactly one *)
(* interval {0, current buffer length, source} when the buffer is not      *)
(* empty and no interval when it is, whatever it held before.              *)
(***************************************************************************)
SingleSpan(rs, current_length, source) ==
    IF current_length = 0 THEN rs = <<>>
    ELSE /\ Len(rs) = 1
         /\ rs[1].start = 0 /\ rs[1].end = current_length /\ rs[1].source = source

C20_ResetAsSingleSpan ==
    [][\A t \in Threads :
          /\ At(t, "undo_append") /\ frame'[t].pc = "release"
             => SingleSpan(input_ranges', Len(text), "manual")
          /\ At(t, "redo_append") /\ frame'[t].pc = "retag"
             => SingleSpan(input_ranges', Len(text), "pasted")]_vars

\* an undo has collapsed a text of two characters into one manual interval
C20_Witness ==
    \E t \in Threads :
        /\ At(t, "release")
        /\ frame[t].op = "refresh_after_undo"
        /\ Len(text) = 2
        /\ Len(input_ranges) = 1
        /\ input_ranges[1].end = 2 /\ input_ranges[1].source = "manual"

(***************************************************************************)
(* C18: get_metadata returns a snapshot that shares no mutable state with  *)
(* the tracker: no tracker call made after the export (record_insertion    *)
(* with its reconciliation, clear, load_metadata, the undo and redo reset) *)
(* changes a snapshot returned before, and no change the caller makes to   *)
(* the snapshot changes the tracker's interval set.                        *)
(***************************************************************************)
\* the calls that change the tracker
TrackerCalls ==
    {"track", "clear", "load_metadata", "refresh_after_undo",
     "restore_from_current_text"}

\* C18: no tracker call changes an earlier snapshot, no change by the caller
\* changes the interval set, and the two hold no object in common
C18_SnapshotNotAliased ==
    [][/\ (snap.exported /\ snap'.op \in TrackerCalls) => snap'.ranges = snap.ranges
       /\ snap'.op = "caller" => input_ranges' = input_ranges
       /\ ~snap'.sameList /\ \A j \in 1..Len(snap'.link) : snap'.link[j] = 0]_vars

\* a snapshot of two intervals, the tracker having since truncated one of
\* its own and the caller having changed one of the snapshot's
C18_Witness ==
    /\ snap.exported
    /\ snap.op = "caller"
    /\ Len(snap.ranges) = 2 /\ Len(input_ranges) = 2
    /\ snap.ranges[1].end > input_ranges[1].end
    /\ snap.ranges[2].end < input_ranges[2].end

(***************************************************************************)
(* C21: no read of the tracker's interval set observes the state between   *)
(* the deletion-reconciliation step and the end of the same                *)
(* record_insertion: while one context is past _handle_deletions and not   *)
(* yet past the assignment of the merged list, no other context is at a    *)
(* statement that reads the set.                                           *)
(***************************************************************************)
\* past _handle_deletions, before self.input_ranges = merged
InsertionPcs == {"partition", "merge"}
\* the statements that read self.input_ranges
ReadPcs == {"lookup", "export", "area", "find", "hover_scan", "retag"}

C21_InsertionAtomicToReaders ==
    \A t \in DOMAIN frame, u \in DOMAIN frame :
        (t # u /\ frame[t].pc \in ReadPcs) => frame[u].pc \notin InsertionPcs

(***************************************************************************)
(* C22: when record_insertion coalesces two touching same-source           *)
(* intervals, the resulting interval carries the earlier of the two        *)
(* timestamps, whichever of the two has the smaller start.                 *)
(***************************************************************************)
\* the sorted list the coalescing loop of _update_ranges runs over
Pending(t) ==
    SortByStart(Append(frame[t].new_ranges,
                       Range(frame[t].start_idx, frame[t].end_idx,
                             IF frame[t].op = "track_manual_input"
                             THEN "manual" ELSE "pasted",
                             clock)))

Touching(a, b) == a.source = b.source /\ a.end = b.start

C22_CoalescedKeepsEarlier ==
    [][\A t \in Threads :
          At(t, "merge") /\ frame'[t].pc = "release"
          => \A i \in 1..(Len(Pending(t)) - 1) :
                Touching(Pending(t)[i], Pending(t)[i + 1])
                => \E k \in 1..Len(input_ranges') :
                      /\ input_ranges'[k].source = Pending(t)[i].source
                      /\ input_ranges'[k].start <= Pending(t)[i].start
                      /\ input_ranges'[k].end >= Pending(t)[i + 1].end
                      /\ input_ranges'[k].timestamp
                            = Min(Pending(t)[i].timestamp,
                                  Pending(t)[i + 1].timestamp)]_vars

(***************************************************************************)
(* C23: coalescing never merges intervals of different sources.  Two       *)
(* touching intervals with different sources that the coalescing loop      *)
(* meets come out of every record_insertion as two neighbours with the     *)
(* boundary between them where it was; scaled scenario: from empty,        *)
(* record_insertion(0, 1, Manual) then record_insertion(1, 1, Pasted)      *)
(* leaves exactly {0,1,Manual} and {1,2,Pasted}.                           *)
(***************************************************************************)
Abutting(a, b) == a.source # b.source /\ a.end = b.start

C23_SourcesStaySeparate ==
    [][\A t \in Threads :
          At(t, "merge") /\ frame'[t].pc = "release"
          => \A i \in 1..(Len(Pending(t)) - 1) :
                Abutting(Pending(t)[i], Pending(t)[i + 1])
                => \E k \in 1..(Len(input_ranges') - 1) :
                      /\ input_ranges'[k].source = Pending(t)[i].source
                      /\ input_ranges'[k].end = Pending(t)[i].end
                      /\ input_ranges'[k + 1].source = Pending(t)[i + 1].source
                      /\ input_ranges'[k + 1].start = Pending(t)[i + 1].start]_vars

\* the scenario's end: a paste recorded right behind typed text
C23_Witness ==
    \E t \in Threads :
        /\ At(t, "release")
        /\ frame[t].op = "track_paste_input"
        /\ frame[t].start_idx = 1 /\ frame[t].end_idx = 2
        /\ Len(input_ranges) = 2
        /\ input_ranges[1].start = 0 /\ input_ranges[1].end = 1
        /\ input_ranges[1].source = "manual"
        /\ input_ranges[2].start = 1 /\ input_ranges[2].end = 2
        /\ input_ranges[2].source = "pasted"

(***************************************************************************)
(* C24: parsing an embedded document.  Without the start delimiter the     *)
(* whole input is the content and there is no metadata; with the start     *)
(* delimiter and no end delimiter after it the content is everything       *)
(* before the start delimiter, no character removed, and the metadata is   *)
(* absent.                                                                 *)
(***************************************************************************)
C24_ParseRecovers ==
    file.stage = "parsed" =>
        LET at == Find(file.file_content, MetadataStart, 1)
        IN /\ at = 0 => file.loaded = Loaded(file.file_content, Absent)
           /\ (at > 0 /\ Find(file.file_content, MetadataEnd, at + 1) = 0)
              => file.loaded = Loaded(SubSeq(file.file_content, 1, at - 1), Absent)

(***************************************************************************)
(* C25: get_stats returns its statistics on a zero-length buffer and on    *)
(* absent metadata.  With total_length = 0 the three percentages are 0;    *)
(* with absent metadata unknown_chars = total_length and typed_chars =     *)
(* pasted_chars = 0: the whole buffer is unknown.                          *)
(***************************************************************************)
C25_StatsEdgeCases ==
    mgr.stage = "counted" =>
        /\ mgr.stats.total_chars = mgr.total_length
        /\ mgr.total_length = 0 =>
              /\ mgr.stats.typed_percentage = ZeroPercent
              /\ mgr.stats.pasted_percentage = ZeroPercent
              /\ mgr.stats.unknown_percentage = ZeroPercent
        /\ ~mgr.a.present =>
              /\ mgr.stats.unknown_chars = mgr.total_length
              /\ mgr.stats.typed_chars = 0
              /\ mgr.stats.pasted_chars = 0
              /\ mgr.total_length > 0 => mgr.stats.unknown_percentage = FullPercent

\* statistics of a set with typed characters over an empty buffer
C25_Witness ==
    /\ mgr.stage = "counted"
    /\ mgr.total_length = 0
    /\ mgr.a.present
    /\ mgr.stats.typed_chars > 0
    /\ mgr.stats.typed_percentage = ZeroPercent

(***************************************************************************)
(* C26: get_source_at_position(p) returns the source of an interval with   *)
(* start <= p < end when the set holds one, and None ("none") when it      *)
(* holds none, and leaves the interval set as it is.                       *)
(***************************************************************************)
CoveringAt(rs, p) == {k \in 1..Len(rs) : rs[k].start <= p /\ p < rs[k].end}

C26_SourceAt ==
    [][\A t \in Threads :
          At(t, "lookup") /\ frame'[t].pc = "release"
          => LET covering == CoveringAt(input_ranges,
                                        PosToIndex(frame[t].position, text))
             IN /\ covering # {}
                   => \E k \in covering : frame'[t].source = input_ranges[k].source
                /\ covering = {} => frame'[t].source = "none"
                /\ input_ranges' = input_ranges]_vars

\* None was returned for the offset at which a tracked interval ends
C26_Witness ==
    \E t \in Threads :
        /\ At(t, "release")
        /\ frame[t].op = "get_source_at_position"
        /\ frame[t].source = "none"
        /\ \E k \in 1..Len(input_ranges) :
              input_ranges[k].end = PosToIndex(frame[t].position, text)

(***************************************************************************)
(* C27: get_ranges_in_area(start, end) returns exactly the intervals r of  *)
(* the set with r.start < end and r.end > start, in the order of the set;  *)
(* an interval that only touches the query (r.end = start or               *)
(* r.start = end) is not returned.                                         *)
(***************************************************************************)
Intersecting(rs, start, end) ==
    {k \in 1..Len(rs) : rs[k].start < end /\ rs[k].end > start}

\* picked lists exactly the entries of rs at the places in K, in rs's order
ListsInOrder(picked, rs, K) ==
    /\ Len(picked) = Cardinality(K)
    /\ \E f \in [1..Len(picked) -> K] :
          /\ \A i \in 1..Len(picked) : picked[i] = rs[f[i]]
          /\ \A i \in 1..(Len(picked) - 1) : f[i] < f[i + 1]

C27_RangesInArea ==
    [][(frame'["ui"].op = "get_ranges_in_area" /\ frame' # frame)
       => /\ ListsInOrder(frame'["ui"].result, input_ranges,
                          Intersecting(input_ranges, frame'["ui"].start_idx,
                                       frame'["ui"].end_idx))
          /\ input_ranges' = input_ranges]_vars

\* a query that starts where one interval ends returned the next one only
C27_Witness ==
    /\ frame["ui"].op = "get_ranges_in_area"
    /\ Len(input_ranges) = 2
    /\ input_ranges[1].end = frame["ui"].start_idx
    /\ input_ranges[2].start = frame["ui"].start_idx
    /\ frame["ui"].result = <<input_ranges[2]>>

(***************************************************************************)
(* C28: the interval set is empty after clear(), after a new document is   *)
(* created, and after a document is opened that carries no metadata or     *)
(* whose metadata decodes to absent; from the empty set record_insertion   *)
(* leaves exactly the inserted interval and the queries find nothing.      *)
(***************************************************************************)
Called(op) == frame'["ui"].op = op /\ <<frame, file>>' # <<frame, file>>

C28_EmptyAndUsable ==
    [][/\ Called("clear") => input_ranges' = <<>>
       /\ Called("new_file") => input_ranges' = <<>> /\ text' = <<>>
       /\ (Called("open_file") /\ ~file'.loaded.metadata.present)
          => input_ranges' = <<>>
       /\ input_ranges = <<>> =>
             /\ \A op \in {"track_manual_input", "track_paste_input"} :
                   Called(op) =>
                      input_ranges'
                         = <<Range(frame'["ui"].start_idx, frame'["ui"].end_idx,
                                   IF op = "track_manual_input" THEN "manual"
                                   ELSE "pasted",
                                   clock)>>
             /\ Called("get_source_at_position") => frame'["ui"].source = "none"
             /\ Called("get_ranges_in_area") => frame'["ui"].result = <<>>]_vars

\* a document with text has been opened from a file whose metadata section
\* has no end delimiter
C28_Witness ==
    /\ file.stage = "opened"
    /\ frame["ui"].op = "open_file"
    /\ Find(file.file_content, MetadataStart, 1) > 0
    /\ Find(file.file_content, MetadataEnd, 1) = 0
    /\ text # <<>>
    /\ input_ranges = <<>>

(***************************************************************************)
(* C29: deserialize_metadata accepts both forms: for any range list R,     *)
(* decoding the legacy text {"ranges": R} and decoding a versioned         *)
(* envelope whose data is {"ranges": R} both return a present provenance   *)
(* set whose ranges are R.                                                 *)
(***************************************************************************)
Decoded(metadata_str) == codec.stage = "read" /\ codec.wire = metadata_str

C29_BothFormsAccepted ==
    \A R \in RangeLists :
        (\/ Decoded(Dumps(Legacy(R)))
         \/ Decoded(SerializeMetadata(Legacy(R), "1.0", 0)))
        => /\ codec.out.present
           /\ codec.out.propagated = ""
           /\ codec.out.val.t = "obj"
           /\ HasKey(codec.out.val, "ranges")
           /\ Get(codec.out.val, "ranges") = R

\* a legacy text with a non-empty range list has been decoded
C29_Witness ==
    /\ Decoded(Dumps(Legacy(JArr(<<RangeValue(Range(0, 1, "manual", 0))>>))))
    /\ codec.out.present

(***************************************************************************)
(* C30: immediately after an insertion of length >= 1 is recorded at an    *)
(* offset with a source, every offset from that offset up to the offset    *)
(* plus the length is covered by an interval of that source, whatever the  *)
(* set held before and whatever was recorded at those offsets.             *)
(***************************************************************************)
TrackedSource(f) ==
    CASE f.op = "track_manual_input" -> "manual"
      [] f.op = "track_paste_input" -> "pasted"
      [] OTHER -> "none"

PlaceOf(old, i, position) ==
    i + Cardinality({j \in 1..(i - 1) : Straddles(old[j], position)})

BeforeAndAfterKept(old, new, position, length) ==
    \A i \in 1..Len(old) :
        /\ old[i].end <= position =>
              /\ PlaceOf(old, i, position) <= Len(new)
              /\ new[PlaceOf(old, i, position)] = old[i]
        /\ old[i].start >= position =>
              /\ PlaceOf(old, i, position) <= Len(new)
              /\ new[PlaceOf(old, i, position)] =
                    Range(old[i].start + length, old[i].end + length,
                          old[i].source, old[i].timestamp)

ReportedInsertion == Len(text') > Len(text)

C32_InsideBuffer ==
    [][ReportedInsertion =>
          \A i \in 1..Len(input_ranges') : input_ranges'[i].end <= Len(text')]_vars

(***************************************************************************)
(* C33: in a history of insertions, each reported after it happened, and   *)
(* of unreported deletions that remove only the end of the buffer, after   *)
(* every record_insertion get_source_at_position(p) is the source the      *)
(* character at p was inserted with, for every p below the buffer length.  *)
(***************************************************************************)
C33_SourceSurvivesTrimming ==
    [][ReportedInsertion =>
          \A p \in 0..(Len(text') - 1) :
              /\ GetSourceAtPosition(input_ranges', IntPos(p), text') = origin'[p + 1]
              /\ GetSourceAtPosition(input_ranges', TkIndex(p, text'), text')
                    = origin'[p + 1]]_vars

\* an insertion was reported after the end of the text had been deleted:
\* an interval still reaches beyond the buffer, and both sources are in it
C33_Witness ==
    /\ Len(text) >= 2
    /\ \E i \in 1..Len(input_ranges) : input_ranges[i].end > Len(text)
    /\ \E p, q \in 1..Len(origin) : origin[p] = "manual" /\ origin[q] = "pasted"

(***************************************************************************)
(* C34: for every text content and every valid metadata, saving to a       *)
(* .lakra document and loading it back returns exactly the saved content,  *)
(* also when the content ends in white space or holds the text of the      *)
(* start delimiter: embedding metadata never alters the document text.     *)
(***************************************************************************)
C34_ContentRoundTrip ==
    (/\ file.stage = "parsed"
     /\ Truthy(file.metadata)
     /\ ValidateMetadata(file.metadata))
    => file.loaded.content = file.content

(***************************************************************************)
(* C35: in every tracker state reached from the empty one through clear,   *)
(* record_insertion (position >= 0, length >= 1, any buffer length) and    *)
(* the resets of undo and redo, the exported metadata passes               *)
(* validate_metadata, so a save to a .lakra file embeds the metadata block *)
(* and never falls back to saving without metadata.                        *)
(***************************************************************************)
C35_ExportIsValid ==
    /\ file.stage = "idle" => ValidateMetadata(GetMetadata(input_ranges))
    /\ file.stage = "saved" =>
          /\ file.metadata = GetMetadata(input_ranges)
          /\ ValidateMetadata(file.metadata)
          /\ file.file_content =
                file.content \o <<WsTok, MetadataStart, WsTok>>
                    \o SerializeMetadata(file.metadata, "1.0", clock)
                    \o <<WsTok, MetadataEnd>>

\* a document saved after an undo on a shortened buffer and a paste
C35_Witness ==
    /\ file.stage = "saved"
    /\ Len(input_ranges) = 2
    /\ input_ranges[1].source # input_ranges[2].source
    /\ input_ranges[2].end > Len(text)

(***************************************************************************)
(* C36: end-to-end persistence.  For every tracker state reached from the  *)
(* empty one by insertions, saving the document to a .lakra file and       *)
(* opening that file again leaves the tracker with the same sequence of    *)
(* (start, end, source) intervals as at save time.                         *)
(***************************************************************************)
\* the (start, end, source) of the intervals of an exported dictionary
SavedSpans(metadata) ==
    LET ranges == Get(metadata, "ranges").items
    IN [k \in 1..Len(ranges) |->
           [start |-> Get(ranges[k], "start").n, end |-> Get(ranges[k], "end").n,
            source |-> Get(ranges[k], "source").s]]

C36_SameIntervalsAfterReopen ==
    file.stage = "opened" => Spans(input_ranges) = SavedSpans(file.metadata)

(***************************************************************************)
(* C37: merge_metadata is commutative: merge_metadata(a, b) and            *)
(* merge_metadata(b, a) return the same ranges (start, end, source, in the *)
(* same order) for all valid provenance sets a and b, also when intervals  *)
(* of the two sets start at the same offset with different sources.        *)
(***************************************************************************)
C37_MergeCommutes ==
    (mgr.stage = "merged" /\ Normalized(mgr.a.ranges) /\ Normalized(mgr.b.ranges))
        => Spans(MergeMetadata(mgr.b, mgr.a, mgr.version).ranges)
             = Spans(mgr.merged.ranges)

(***************************************************************************)
(* C38: merge_metadata leaves both of its input sets unchanged: no         *)
(* interval of a or of b is modified, reordered or removed, also when an   *)
(* input interval is extended in the output by absorbing a later one.      *)
(***************************************************************************)
C38_InputsUntouched ==
    [][(mgr.stage = "sets" /\ mgr'.stage = "merged")
           => (mgr'.a = mgr.a /\ mgr'.b = mgr.b)]_vars

\* the one interval of the output is an interval of a made longer by the
\* interval of b it absorbed, and a still holds it as it was
C38_Witness ==
    /\ mgr.stage = "merged"
    /\ Len(mgr.a.ranges) = 1 /\ Len(mgr.b.ranges) = 1 /\ Len(mgr.merged.ranges) = 1
    /\ mgr.merged.ranges[1].start = mgr.a.ranges[1].start
    /\ mgr.merged.ranges[1].end = mgr.b.ranges[1].end
    /\ mgr.a.ranges[1].end < mgr.b.ranges[1].end

====
